---- MODULE Spec2Model ----
(***************************************************************************)
(* Model of the PR aggregation pipeline of wt: `wt status`                 *)
(* (runStatus / fetchPullRequestStatuses / markPRInterrupted) and          *)
(* `wt tidy` (newTidyUI / fetchTidyPullRequests), and of the mutating      *)
(* commands: `wt tidy` from process attachment to executeTidies,           *)
(* `wt kill` (runKill) and `wt rm` (runRm).                                *)
(*                                                                         *)
(* Strings are sequences of tokens; a token is one character or one        *)
(* literal fragment that holds no whitespace at its ends and no newline.   *)
(***************************************************************************)
EXTENDS Integers, Sequences, FiniteSets, TLC

VARIABLES
    cmd,          \* which command runs: "status" or "tidy"
    pc,           \* position of the main (consumer) goroutine
    rows,         \* the statuses / candidates slice: worktree ids in slice order
    defaultWt,    \* proj.DefaultWorktree as a worktree id, 0 when it names no row
    facts,        \* per worktree: Dirty, HasStash, UniqueAhead, Branch, Blocked
    timestamp,    \* per worktree: Timestamp / LastActivity
    prStatus,     \* per worktree: worktreeStatus.PRStatus
    pullRequests, \* per worktree: PullRequests / PRs stored by the consumer
    extraGray,    \* per worktree: tidyCandidate.extraGrayReasons
    ppc,          \* per worktree: position of its producer goroutine
    results,      \* the buffered results channel
    closed,       \* the results channel has been closed
    ctxDone,      \* the context has been cancelled
    pending,      \* the consumer's pending map: set of results held back
    next,         \* the consumer's cursor into ordered
    combined,     \* the consumer's joined error: sequence of entries
    ret,          \* what the fetch function returned
    applied,      \* worktrees whose result was applied, in order of application
    interrupted,  \* onUpdate calls made by markPRInterrupted, in order
    queries,      \* remote `gh pr list` invocations issued, per branch
    xcmd,         \* which mutating command runs: "tidy", "kill", "rm"; "none"
    xpc,          \* position of the mutating command
    opts,         \* its flags: policy, dryRun, kill, force
    supported,    \* the process enumerator can list processes (/proc exists)
    args,         \* the worktree arguments of wt kill / wt rm
    targets,      \* the worktrees the command's loop ranges over, in order
    cands,        \* per worktree: the tidyCandidate fields
    live,         \* the pids that are running
    cwd,          \* per pid: the worktree its working directory is in
    signals,      \* Terminate calls made, in order: pid, worktree, delivered
    outcome,      \* per worktree: what its termination attempt returned
    cleanups,     \* performCleanup / performRmCleanup calls made, in order
    removed,      \* worktrees whose directory was removed
    prompts,      \* promptForCandidate calls made, in order, with the answer
    loop,         \* locals of the running command: idx, manualQuit,
                  \* remoteTouched, changed, forced (forcedReasons)
    pruned,       \* pruneRemote was invoked
    visited,      \* worktrees the loop has handled, in order
    xret,         \* what the command returned
    gitData,      \* per worktree: what git reports there, and where
                  \* gatherWorktreeGitData fails
    tidyConfig,   \* proj.Config.Tidy: DivergenceCommits, StaleDays
    now,          \* currentTimeOverride() at the start of the command
    wd,           \* the worktree os.Getwd() is inside, 0 when in none
    fieldWidths,  \* per status: the display widths of its three fields
    termWidth,    \* the terminal width given as maxWidth, 0 when unknown
    layout,       \* the columnLayout of the last buildColumnLayout, <<>>
                  \* before it
    eastAsian,    \* runewidth.DefaultCondition.EastAsianWidth, set from the
                  \* environment when the program starts
    cellText,     \* the text given to padOrTrim, as bytes
    cellWidth,    \* the width given to padOrTrim
    cellOut,      \* what padOrTrim returned, once it has
    rlines,       \* statusRenderer.lines
    rlog,         \* the calls made on the statusRenderer and what each
                  \* wrote to the terminal
    tpc,          \* position of one terminateWorktreeProcesses call
    deadline,     \* waitForProcessExit: deadline, on the clock now
    polled,       \* waitForProcessExit: what each enumeration listed
    tret          \* what terminateWorktreeProcesses returned

vars == <<cmd, pc, rows, defaultWt, facts, timestamp, prStatus, pullRequests,
          extraGray, ppc, results, closed, ctxDone, pending, next, combined,
          ret, applied, interrupted, queries,
          xcmd, xpc, opts, supported, args, targets, cands, live, cwd, signals,
          outcome, cleanups, removed, prompts, loop, pruned, visited, xret,
          gitData, tidyConfig, now, wd, fieldWidths, termWidth, layout,
          eastAsian, cellText, cellWidth, cellOut, rlines, rlog,
          tpc, deadline, polled, tret>>

\* the state of the PR pipelines, and the state of the mutating commands
pipelineVars == <<cmd, pc, rows, defaultWt, facts, timestamp, prStatus,
                  pullRequests, extraGray, ppc, results, closed, ctxDone,
                  pending, next, combined, ret, applied, interrupted, queries>>

execVars == <<xcmd, xpc, opts, supported, args, targets, cands, live, cwd,
              signals, outcome, cleanups, removed, prompts, loop, pruned,
              visited, xret>>

\* what the scan of the worktrees reads
scanVars == <<gitData, tidyConfig, now, wd>>

\* what the table layout is computed from, and the layout
layoutVars == <<fieldWidths, termWidth, layout>>

\* the cell padOrTrim is given, and the statusRenderer
cellVars == <<eastAsian, cellText, cellWidth, cellOut>>
rendererVars == <<rlines, rlog>>
attemptVars == <<tpc, deadline, polled, tret>>

-----------------------------------------------------------------------------
(* Bounds *)

NumWorktrees == 3
MaxTime == 2

Ids == 1..NumWorktrees
Times == 1..MaxTime

-----------------------------------------------------------------------------
(* Text *)

Range(s) == {s[i] : i \in 1..Len(s)}

IsSpace(c) == c \in {" ", "\n", "\r", "\t"}

RECURSIVE TrimLeft(_)
TrimLeft(s) ==
    IF s # <<>> /\ IsSpace(Head(s)) THEN TrimLeft(Tail(s)) ELSE s

RECURSIVE TrimRight(_)
TrimRight(s) ==
    IF s # <<>> /\ IsSpace(s[Len(s)])
    THEN TrimRight(SubSeq(s, 1, Len(s) - 1))
    ELSE s

TrimSpace(s) == TrimRight(TrimLeft(s))

\* strings.ReplaceAll(msg, "\r\n", "\n")
RECURSIVE ReplaceCRLF(_)
ReplaceCRLF(s) ==
    IF s = <<>> THEN <<>>
    ELSE IF Len(s) >= 2 /\ s[1] = "\r" /\ s[2] = "\n"
         THEN <<"\n">> \o ReplaceCRLF(Tail(Tail(s)))
         ELSE <<Head(s)>> \o ReplaceCRLF(Tail(s))

\* strings.ReplaceAll(msg, "\n", "; ")
RECURSIVE ReplaceNewlines(_)
ReplaceNewlines(s) ==
    IF s = <<>> THEN <<>>
    ELSE IF Head(s) = "\n"
         THEN <<";", " ">> \o ReplaceNewlines(Tail(s))
         ELSE <<Head(s)>> \o ReplaceNewlines(Tail(s))

ToLower(c) ==
    CASE c = "PR: loading..." -> "pr: loading..."
      [] c = "PR: interrupted" -> "pr: interrupted"
      [] c = "PR: unavailable (" -> "pr: unavailable ("
      [] c = "PR " -> "pr "
      [] c = "PR #" -> "pr #"
      [] c = "No PR" -> "no pr"
      [] c = "OPEN" -> "open"
      [] c = "CLOSED" -> "closed"
      [] c = "MERGED" -> "merged"
      [] OTHER -> c

EqualFold(a, b) ==
    /\ Len(a) = Len(b)
    /\ \A i \in 1..Len(a) : ToLower(a[i]) = ToLower(b[i])

-----------------------------------------------------------------------------
(* Errors: text is err.Error(); canceled is errors.Is(err, context.Canceled);
   fromCancel records that the lookup failed because the context was
   cancelled. *)

NilErr == [nil |-> TRUE, text |-> <<>>, canceled |-> FALSE, fromCancel |-> FALSE]

ContextCanceled ==
    [nil |-> FALSE, text |-> <<"context canceled">>, canceled |-> TRUE,
     fromCancel |-> TRUE]

\* an error text that is trimmed and otherwise left as it is
singleLineErrorUnjoined(err) ==
    IF err.nil THEN <<>> ELSE TrimSpace(err.text)

singleLineError(err) ==
    IF err.nil THEN <<>>
    ELSE ReplaceNewlines(TrimSpace(ReplaceCRLF(err.text)))

-----------------------------------------------------------------------------
(* Pull requests *)

PullRequest(number, state, isDraft, updatedAt) ==
    [Number |-> number, State |-> state, IsDraft |-> isDraft,
     UpdatedAt |-> updatedAt]

Open(pr) == ToLower(pr.State) = "open"

RECURSIVE openPullRequests(_)
openPullRequests(prs) ==
    IF prs = <<>> THEN <<>>
    ELSE IF Open(Head(prs))
         THEN <<Head(prs)>> \o openPullRequests(Tail(prs))
         ELSE openPullRequests(Tail(prs))

formatPRState(pr) ==
    IF pr.IsDraft /\ ToLower(pr.State) = "open" THEN "draft"
    ELSE ToLower(pr.State)

formatSinglePR(pr) == <<"#", ToString(pr.Number), " ", formatPRState(pr)>>

RECURSIVE JoinNumbers(_, _)
JoinNumbers(prs, i) ==
    IF i > Len(prs) \/ i > 3 THEN <<>>
    ELSE (IF i > 1 THEN <<",", " ">> ELSE <<>>)
         \o <<"#", ToString(prs[i].Number)>> \o JoinNumbers(prs, i + 1)

formatMultiplePRs(prs) == <<"PR ">> \o JoinNumbers(prs, 1) \o <<" ", "multiple">>

hasPendingWork(dirty, hasStash, uniqueAhead) ==
    dirty \/ hasStash \/ uniqueAhead > 0

\* part_000 calls the two-argument form; PRsExpected is the workflow
\* expectation the later three-argument form reads.
PRsExpected == TRUE

summarizePullRequestState(ctx, prs) ==
    LET active == openPullRequests(prs) IN
    IF ~ctx.HasPendingWork THEN [Operation |-> <<>>, Column |-> <<>>, Reason |-> <<>>]
    ELSE IF Len(active) = 1
    THEN LET text == <<"PR ">> \o formatSinglePR(active[1])
         IN [Operation |-> text, Column |-> text, Reason |-> <<>>]
    ELSE IF Len(active) > 1
    THEN LET text == formatMultiplePRs(active)
         IN [Operation |-> text, Column |-> text, Reason |-> <<>>]
    ELSE IF ~ctx.HasUniqueCommits
    THEN [Operation |-> <<>>, Column |-> <<>>, Reason |-> <<>>]
    ELSE IF Len(prs) = 0
    THEN IF ~PRsExpected
         THEN [Operation |-> <<>>, Column |-> <<>>, Reason |-> <<>>]
         ELSE [Operation |-> <<>>, Column |-> <<"No PR">>, Reason |-> <<"No PR">>]
    ELSE LET text == <<"PR #", ToString(prs[1].Number), " ",
                       formatPRState(prs[1]), ";", " ", "unpublished commits">>
         IN [Operation |-> text, Column |-> text, Reason |-> text]

-----------------------------------------------------------------------------
(* queryPullRequests: what one lookup can return *)

ExitError == [nil |-> FALSE, text |-> <<"exit status 1">>, canceled |-> FALSE,
              fromCancel |-> FALSE]

\* exec.CommandContext kills the child when the context is cancelled
Killed == [nil |-> FALSE, text |-> <<"signal: killed">>, canceled |-> FALSE,
           fromCancel |-> TRUE]

\* fmt.Errorf("gh pr list: %s", msg): the %s verb keeps the text of the
\* cause and drops its identity, so errors.Is no longer finds it
GhPrListError(stderr, runErr) ==
    LET msg == IF TrimSpace(stderr) = <<>> THEN runErr.text ELSE TrimSpace(stderr)
    IN [nil |-> FALSE, text |-> <<"gh pr list: ">> \o msg, canceled |-> FALSE,
        fromCancel |-> runErr.fromCancel]

\* what gh wrote to stderr before it failed
Stderrs == { <<"x", "\r", "\n", "y", "\n">> }

\* what gh can list for a branch; the open pull request was updated after
\* every worktree's last commit
PRLists ==
    { <<>>,
      <<PullRequest(1, "OPEN", FALSE, MaxTime + 1)>> }

Outcome(prs, err, remote) == [prs |-> prs, err |-> err, remote |-> remote]

queryPullRequests(cancelled, branch) ==
    IF branch = "" THEN { Outcome(<<>>, NilErr, FALSE) }
    ELSE { Outcome(prs, NilErr, TRUE) : prs \in PRLists }
         \cup { Outcome(<<>>, GhPrListError(e, ExitError), TRUE) : e \in Stderrs }
         \cup IF cancelled
              THEN { Outcome(<<>>, GhPrListError(<<>>, Killed), TRUE),
                     Outcome(<<>>, GhPrListError(<<>>, ContextCanceled), FALSE) }
              ELSE {}

-----------------------------------------------------------------------------
(* Worktree facts (gatherWorktreeGitData) *)

Fact(dirty, hasStash, uniqueAhead, branch) ==
    [Dirty |-> dirty, HasStash |-> hasStash, UniqueAhead |-> uniqueAhead,
     Branch |-> branch, HasError |-> FALSE]

\* runStatus: the row of a worktree whose collectWorktreeStatus failed; its
\* Branch is the name of the worktree
ErrorRow(name) ==
    [Dirty |-> FALSE, HasStash |-> FALSE, UniqueAhead |-> 0, Branch |-> name,
     HasError |-> TRUE]

\* a clean merged branch, a branch with unpublished commits, a dirty one
FactSeq ==
    << Fact(FALSE, FALSE, 0, "a"),
       Fact(FALSE, FALSE, 1, "b"),
       Fact(TRUE, FALSE, 0, "c") >>

\* the repositories explored: every worktree alike (and so on one branch),
\* or the worktrees cycling through FactSeq
FactChoices ==
    { [i \in Ids |-> FactSeq[k]] : k \in 1..Len(FactSeq) }
    \cup { [i \in Ids |-> FactSeq[((i - 1) % Len(FactSeq)) + 1]] }

DefaultBranch == "main"

HasPendingWork(i) ==
    hasPendingWork(facts[i].Dirty, facts[i].HasStash, facts[i].UniqueAhead)

-----------------------------------------------------------------------------
(* Row order *)

\* the less function of runStatus and sortCandidatesForDisplay; a worktree's
\* name is its id
Less(ts, a, b) ==
    IF ts[a] = ts[b] THEN a < b ELSE ts[a] > ts[b]

\* insert x after every element that is not greater than it (stable)
RECURSIVE InsertStable(_, _, _)
InsertStable(ts, sorted, x) ==
    IF sorted = <<>> THEN <<x>>
    ELSE IF Less(ts, x, Head(sorted))
         THEN <<x>> \o sorted
         ELSE <<Head(sorted)>> \o InsertStable(ts, Tail(sorted), x)

RECURSIVE SortStable(_, _)
SortStable(ts, s) ==
    IF s = <<>> THEN <<>>
    ELSE InsertStable(ts, SortStable(ts, SubSeq(s, 1, Len(s) - 1)), s[Len(s)])

RECURSIVE Without(_, _)
Without(s, x) ==
    IF s = <<>> THEN <<>>
    ELSE IF Head(s) = x THEN Without(Tail(s), x)
         ELSE <<Head(s)>> \o Without(Tail(s), x)

\* the priority order of fetchPullRequestStatuses: the default worktree
\* first, then the other statuses in slice order
Ordered(statuses, defaultWorktree) ==
    IF defaultWorktree # 0 /\ defaultWorktree \in Range(statuses)
    THEN <<defaultWorktree>> \o Without(statuses, defaultWorktree)
    ELSE statuses

-----------------------------------------------------------------------------
(* Labels *)

prLoadingLabel == <<"PR: loading...">>
prInterruptedLabel == <<"PR: interrupted">>

Unavailable(err) ==
    LET msg == singleLineError(err)
    IN <<"PR: unavailable (">> \o (IF msg = <<>> THEN <<"error">> ELSE msg) \o <<")">>

\* fmt.Errorf("%s: %w", status.Name, err)
Entry(i, err) == [name |-> i, err |-> err]

Result(i, o) == [status |-> i, prs |-> o.prs, err |-> o.err]

-----------------------------------------------------------------------------
(* State after construction: the facts are gathered, nothing is sorted,
   fetched or painted yet *)

\* the thresholds of a project that configures none (config defaults)
DefaultTidyConfig == [DivergenceCommits |-> 20, StaleDays |-> 14]

\* &tidyCandidate{Stage: tidyStageScanning}: every other field holds its zero
\* value; a classification that was never derived is written ""
NewCandidate ==
    [Branch |-> "", Dirty |-> FALSE, HasStash |-> FALSE, IsCurrent |-> FALSE,
     BaseAhead |-> 0, BaseBehind |-> 0, UniqueAhead |-> 0, LastActivity |-> 0,
     PRs |-> <<>>, BlockReasons |-> <<>>, GrayReasons |-> <<>>,
     extraGrayReasons |-> <<>>, Classification |-> "", Stage |-> "scanning",
     sharedWith |-> <<>>, divergenceThreshold |-> 0, staleCutoffDays |-> 0,
     Processes |-> <<>>]

\* a tidyCandidate as collectTidyCandidates leaves it: the block reasons of
\* the inspection, the gray reasons gathered so far, no processes attached,
\* nothing classified
Candidate(block, extra, ahead) ==
    [NewCandidate EXCEPT
        !.Branch = "a",
        !.BlockReasons = block, !.extraGrayReasons = extra,
        !.UniqueAhead = ahead,
        !.divergenceThreshold = DefaultTidyConfig.DivergenceCommits,
        !.staleCutoffDays = DefaultTidyConfig.StaleDays,
        !.Stage = IF block # <<>> THEN "blocked" ELSE "scanning"]

\* no cell is formatted
CellIdle ==
    /\ eastAsian = FALSE
    /\ cellText = <<>>
    /\ cellWidth = 0
    /\ cellOut = [done |-> FALSE, text |-> <<>>]

\* newStatusRenderer: &statusRenderer{w: f}
RendererIdle ==
    /\ rlines = 0
    /\ rlog = <<>>

\* terminateWorktreeProcesses was not called
AttemptIdle ==
    /\ tpc = "idle"
    /\ deadline = 0
    /\ polled = <<>>
    /\ tret = [kind |-> "none", list |-> <<>>]

\* no table is laid out
LayoutIdle ==
    /\ fieldWidths = <<>>
    /\ termWidth = 0
    /\ layout = <<>>
    /\ CellIdle
    /\ RendererIdle
    /\ AttemptIdle

\* nothing was scanned
ScanIdle ==
    /\ gitData = <<>>
    /\ tidyConfig = DefaultTidyConfig
    /\ now = 0
    /\ wd = 0

\* no mutating command runs
ExecIdle ==
    /\ xcmd = "none"
    /\ xpc = "done"
    /\ opts = [policy |-> "auto", dryRun |-> FALSE, kill |-> FALSE,
               force |-> FALSE]
    /\ supported = TRUE
    /\ args = <<>>
    /\ targets = <<>>
    /\ cands = [i \in Ids |-> Candidate(<<>>, <<>>, 0)]
    /\ live = {}
    /\ cwd = <<>>
    /\ signals = <<>>
    /\ outcome = [i \in Ids |-> "none"]
    /\ cleanups = <<>>
    /\ removed = {}
    /\ prompts = <<>>
    /\ loop = [idx |-> 0, manualQuit |-> FALSE, remoteTouched |-> FALSE,
               changed |-> FALSE, forced |-> {}]
    /\ pruned = FALSE
    /\ visited = <<>>
    /\ xret = [kind |-> "running", errs |-> <<>>]

InitCommon ==
    /\ ExecIdle
    /\ ScanIdle
    /\ LayoutIdle
    /\ cmd \in {"status", "tidy"}
    /\ pc = "start"
    /\ rows = [i \in Ids |-> i]
    /\ prStatus = [i \in Ids |-> IF cmd = "status" THEN prLoadingLabel ELSE <<>>]
    /\ pullRequests = [i \in Ids |-> <<>>]
    /\ extraGray = [i \in Ids |-> <<>>]
    /\ ppc = [i \in Ids |-> "idle"]
    /\ results = <<>>
    /\ closed = FALSE
    /\ ctxDone = FALSE
    /\ pending = {}
    /\ next = 0
    /\ combined = <<>>
    /\ ret = [kind |-> "running", errs |-> <<>>]
    /\ applied = <<>>
    /\ interrupted = <<>>
    /\ queries = <<>>

\* the pipelines over every choice of facts and default worktree; the
\* worktrees are equally recent, so the sort orders them by name
Init ==
    /\ InitCommon
    /\ defaultWt \in (IF cmd = "status" THEN 0..NumWorktrees ELSE {0})
    /\ facts \in FactChoices
    /\ timestamp = [i \in Ids |-> 1]

\* the pipelines over every choice of last-activity times
InitOrder ==
    /\ InitCommon
    /\ defaultWt = 0
    /\ facts = [i \in Ids |-> FactSeq[((i - 1) % Len(FactSeq)) + 1]]
    /\ timestamp \in [Ids -> Times]

-----------------------------------------------------------------------------
(* wt status *)

\* runStatus: sort.SliceStable(statuses, ...), then the first paint
SortStatuses ==
    /\ cmd = "status"
    /\ pc = "start"
    /\ rows' = SortStable(timestamp, rows)
    /\ pc' = "sorted"
    /\ UNCHANGED <<attemptVars, cellVars, rendererVars, layoutVars, scanVars, execVars, cmd, defaultWt, facts, timestamp, prStatus, pullRequests,
                   extraGray, ppc, results, closed, ctxDone, pending, next,
                   combined, ret, applied, interrupted, queries>>

\* fetchPullRequestStatuses up to its select loop: one producer per status
StartFetch ==
    /\ cmd = "status"
    /\ pc = "sorted"
    /\ ppc' = [i \in Ids |-> "running"]
    /\ pc' = "select"
    /\ UNCHANGED <<attemptVars, cellVars, rendererVars, layoutVars, scanVars, execVars, cmd, rows, defaultWt, facts, timestamp, prStatus,
                   pullRequests, extraGray, results, closed, ctxDone, pending,
                   next, combined, ret, applied, interrupted, queries>>

\* signal.NotifyContext: an interrupt cancels the context
Cancel ==
    /\ pc \in {"select", "range"}
    /\ ~ctxDone
    /\ ctxDone' = TRUE
    /\ UNCHANGED <<attemptVars, cellVars, rendererVars, layoutVars, scanVars, execVars, cmd, pc, rows, defaultWt, facts, timestamp, prStatus,
                   pullRequests, extraGray, ppc, results, closed, pending,
                   next, combined, ret, applied, interrupted, queries>>

\* a producer that writes the failure into its row itself
ProducerWritesRow(i) ==
    /\ ppc[i] = "running"
    /\ \E o \in queryPullRequests(ctxDone, facts[i].Branch) :
        /\ queries' = IF o.remote THEN Append(queries, facts[i].Branch) ELSE queries
        /\ results' = IF o.err.canceled THEN results
                      ELSE Append(results, Result(i, o))
        /\ prStatus' = IF o.err.nil THEN prStatus
                       ELSE [prStatus EXCEPT ![i] = <<"PR: unavailable (", ")">>]
    /\ ppc' = [ppc EXCEPT ![i] = "done"]
    /\ UNCHANGED <<attemptVars, cellVars, rendererVars, layoutVars, scanVars, execVars, cmd, pc, rows, defaultWt, facts, timestamp, pullRequests,
                   extraGray, closed, ctxDone, pending, next, combined, ret,
                   applied, interrupted>>

\* a producer that sends its result twice
ProducerSendsTwice(i) ==
    /\ ppc[i] = "running"
    /\ \E o \in queryPullRequests(ctxDone, facts[i].Branch) :
        /\ queries' = IF o.remote THEN Append(queries, facts[i].Branch) ELSE queries
        /\ results' = IF o.err.canceled THEN results
                      ELSE results \o <<Result(i, o), Result(i, o)>>
    /\ ppc' = [ppc EXCEPT ![i] = "done"]
    /\ UNCHANGED <<attemptVars, cellVars, rendererVars, layoutVars, scanVars, execVars, cmd, pc, rows, defaultWt, facts, timestamp, prStatus,
                   pullRequests, extraGray, closed, ctxDone, pending, next,
                   combined, ret, applied, interrupted>>

\* the producer goroutine of one status or candidate
Producer(i) ==
    /\ ppc[i] = "running"
    /\ \E o \in queryPullRequests(ctxDone, facts[i].Branch) :
        /\ queries' = IF o.remote THEN Append(queries, facts[i].Branch) ELSE queries
        /\ results' = IF o.err.canceled THEN results
                      ELSE Append(results, Result(i, o))
    /\ ppc' = [ppc EXCEPT ![i] = "done"]
    /\ UNCHANGED <<attemptVars, cellVars, rendererVars, layoutVars, scanVars, execVars, cmd, pc, rows, defaultWt, facts, timestamp, prStatus,
                   pullRequests, extraGray, closed, ctxDone, pending, next,
                   combined, ret, applied, interrupted>>

\* a closer that does not wait for the producers
CloserEarly ==
    /\ ~closed
    /\ \E i \in Ids : ppc[i] \in {"done", "skipped"}
    /\ closed' = TRUE
    /\ UNCHANGED <<attemptVars, cellVars, rendererVars, layoutVars, scanVars, execVars, cmd, pc, rows, defaultWt, facts, timestamp, prStatus,
                   pullRequests, extraGray, ppc, results, ctxDone, pending,
                   next, combined, ret, applied, interrupted, queries>>

\* go func() { wg.Wait(); close(results) }()
Closer ==
    /\ ~closed
    /\ \A i \in Ids : ppc[i] \in {"done", "skipped"}
    /\ closed' = TRUE
    /\ UNCHANGED <<attemptVars, cellVars, rendererVars, layoutVars, scanVars, execVars, cmd, pc, rows, defaultWt, facts, timestamp, prStatus,
                   pullRequests, extraGray, ppc, results, ctxDone, pending,
                   next, combined, ret, applied, interrupted, queries>>

\* the consumer's state while it walks ordered
Cursor(pend, nxt, labels, prs, comb, app) ==
    [pending |-> pend, next |-> nxt, prStatus |-> labels, pullRequests |-> prs,
     combined |-> comb, applied |-> app]

\* one pass of the body of `for next < len(ordered)` for a ready status
ApplyResult(c, status, res) ==
    IF ~res.err.nil
    THEN Cursor(c.pending \ {res}, c.next + 1,
                [c.prStatus EXCEPT ![status] = Unavailable(res.err)],
                c.pullRequests,
                Append(c.combined, Entry(status, res.err)),
                Append(c.applied, status))
    ELSE Cursor(c.pending \ {res}, c.next + 1,
                [c.prStatus EXCEPT ![status] =
                    summarizePullRequestState(
                        [HasPendingWork |-> HasPendingWork(status),
                         HasUniqueCommits |-> facts[status].UniqueAhead > 0],
                        res.prs).Column],
                [c.pullRequests EXCEPT ![status] = res.prs],
                c.combined,
                Append(c.applied, status))

\* a consumer without the pending buffer: whatever has arrived is applied
RECURSIVE ApplyArrived(_, _)
ApplyArrived(c, ordered) ==
    IF c.pending # {}
    THEN LET res == CHOOSE r \in c.pending : TRUE
         IN ApplyArrived(ApplyResult(c, res.status, res), ordered)
    ELSE c

\* for next < len(ordered) { ... }: apply while the status at the cursor has
\* its result in pending
RECURSIVE ApplyReady(_, _)
ApplyReady(c, ordered) ==
    IF c.next < Len(ordered)
       /\ \E res \in c.pending : res.status = ordered[c.next + 1]
    THEN LET status == ordered[c.next + 1]
             res == CHOOSE r \in c.pending : r.status = status
         IN ApplyReady(ApplyResult(c, status, res), ordered)
    ELSE c

\* case res, ok := <-results, with ok
SelectRecv ==
    /\ cmd = "status"
    /\ pc = "select"
    /\ results # <<>>
    /\ LET c == ApplyReady(Cursor(pending \cup {Head(results)}, next, prStatus,
                                  pullRequests, combined, applied),
                           Ordered(rows, defaultWt))
       IN /\ pending' = c.pending
          /\ next' = c.next
          /\ prStatus' = c.prStatus
          /\ pullRequests' = c.pullRequests
          /\ combined' = c.combined
          /\ applied' = c.applied
    /\ results' = Tail(results)
    /\ UNCHANGED <<attemptVars, cellVars, rendererVars, layoutVars, scanVars, execVars, cmd, pc, rows, defaultWt, facts, timestamp, extraGray, ppc,
                   closed, ctxDone, ret, interrupted, queries>>

\* case res, ok := <-results, with !ok: return combined
SelectClosed ==
    /\ cmd = "status"
    /\ pc = "select"
    /\ results = <<>>
    /\ closed
    /\ ret' = [kind |-> "joined", errs |-> combined]
    /\ pc' = "done"
    /\ UNCHANGED <<attemptVars, cellVars, rendererVars, layoutVars, scanVars, execVars, cmd, rows, defaultWt, facts, timestamp, prStatus,
                   pullRequests, extraGray, ppc, results, closed, ctxDone,
                   pending, next, combined, applied, interrupted, queries>>

NeedsInterrupt(label) ==
    LET pr == TrimSpace(label)
    IN \/ pr = <<>>
       \/ EqualFold(pr, prLoadingLabel)
       \/ EqualFold(pr, prInterruptedLabel)

\* markPRInterrupted: the labels it leaves and the onUpdate calls it makes
RECURSIVE markPRInterrupted(_, _, _)
markPRInterrupted(statuses, labels, updates) ==
    IF statuses = <<>> THEN [prStatus |-> labels, updates |-> updates]
    ELSE LET status == Head(statuses) IN
         IF NeedsInterrupt(labels[status])
         THEN markPRInterrupted(Tail(statuses),
                                [labels EXCEPT ![status] = prInterruptedLabel],
                                Append(updates, status))
         ELSE markPRInterrupted(Tail(statuses), labels, updates)

\* a ctx.Done case that returns ctx.Err() and marks nothing
SelectCtxDoneUnmarked ==
    /\ cmd = "status"
    /\ pc = "select"
    /\ ctxDone
    /\ ret' = [kind |-> "ctx", errs |-> <<>>]
    /\ pc' = "done"
    /\ UNCHANGED <<attemptVars, cellVars, rendererVars, layoutVars, scanVars, execVars, cmd, rows, defaultWt, facts, timestamp, prStatus,
                   pullRequests, extraGray, ppc, results, closed, ctxDone,
                   pending, next, combined, applied, interrupted, queries>>

\* case <-ctx.Done(): mark what is still loading, return ctx.Err()
SelectCtxDone ==
    /\ cmd = "status"
    /\ pc = "select"
    /\ ctxDone
    /\ LET m == markPRInterrupted(rows, prStatus, interrupted)
       IN /\ prStatus' = m.prStatus
          /\ interrupted' = m.updates
    /\ ret' = [kind |-> "ctx", errs |-> <<>>]
    /\ pc' = "done"
    /\ UNCHANGED <<attemptVars, cellVars, rendererVars, layoutVars, scanVars, execVars, cmd, rows, defaultWt, facts, timestamp, pullRequests,
                   extraGray, ppc, results, closed, ctxDone, pending, next,
                   combined, applied, queries>>

-----------------------------------------------------------------------------
(* wt tidy *)

\* the block reasons inspectWorktreeBase appends
InspectReasons(i) ==
    (IF facts[i].Branch \in {"", "HEAD"} THEN <<"detached HEAD">> ELSE <<>>)
    \o (IF facts[i].Branch = DefaultBranch
        THEN <<"branch is the default">> ELSE <<>>)
    \o (IF facts[i].Dirty THEN <<"worktree has uncommitted changes">> ELSE <<>>)
    \o (IF facts[i].HasStash
        THEN <<"stash entries reference this branch">> ELSE <<>>)

\* collectTidyCandidates adds the shared-branch reason afterwards
BlockReasons(i) ==
    InspectReasons(i)
    \o (IF \E j \in Ids : j # i /\ facts[j].Branch = facts[i].Branch
        THEN <<"branch also used by">> ELSE <<>>)

\* the stage inspectWorktreeBase leaves; nothing changes it before the fetch
\* returns
Stage(i) == IF InspectReasons(i) # <<>> THEN "blocked" ELSE "scanning"

tidyActionLabel(i) ==
    CASE Stage(i) = "blocked" ->
            IF BlockReasons(i) # <<>>
            THEN <<"blocked: ", BlockReasons(i)[1]>> ELSE <<"blocked">>
      [] Stage(i) = "scanning" -> <<"scanning">>
      [] OTHER -> <<Stage(i)>>

\* newTidyUI: sortCandidatesForDisplay, one status per candidate, first paint
TidySort ==
    /\ cmd = "tidy"
    /\ pc = "start"
    /\ rows' = SortStable(timestamp, rows)
    /\ prStatus' = [i \in Ids |-> tidyActionLabel(i)]
    /\ pc' = "sorted"
    /\ UNCHANGED <<attemptVars, cellVars, rendererVars, layoutVars, scanVars, execVars, cmd, defaultWt, facts, timestamp, pullRequests, extraGray,
                   ppc, results, closed, ctxDone, pending, next, combined, ret,
                   applied, interrupted, queries>>

\* fetchTidyPullRequests up to its range loop: one producer per candidate
\* that has no block reason
TidyStart ==
    /\ cmd = "tidy"
    /\ pc = "sorted"
    /\ ppc' = [i \in Ids |-> IF Len(BlockReasons(i)) > 0 THEN "skipped"
                              ELSE "running"]
    /\ pc' = "range"
    /\ UNCHANGED <<attemptVars, cellVars, rendererVars, layoutVars, scanVars, execVars, cmd, rows, defaultWt, facts, timestamp, prStatus,
                   pullRequests, extraGray, results, closed, ctxDone, pending,
                   next, combined, ret, applied, interrupted, queries>>

RECURSIVE Latest(_, _)
Latest(latest, prs) ==
    IF prs = <<>> THEN latest
    ELSE Latest(IF Head(prs).UpdatedAt > latest THEN Head(prs).UpdatedAt
                ELSE latest,
                Tail(prs))

\* a range body that sorts the candidates again after each update
TidyRecvResorting ==
    /\ cmd = "tidy"
    /\ pc = "range"
    /\ results # <<>>
    /\ LET res == Head(results)
           cand == res.status
       IN /\ IF ~res.err.nil
             THEN /\ combined' = Append(combined, Entry(cand, res.err))
                  /\ extraGray' = [extraGray EXCEPT ![cand] =
                        Append(@, <<"PR lookup failed: ">>
                                  \o singleLineError(res.err))]
                  /\ UNCHANGED <<pullRequests, timestamp>>
             ELSE /\ pullRequests' = [pullRequests EXCEPT ![cand] = res.prs]
                  /\ timestamp' = [timestamp EXCEPT ![cand] =
                                     Latest(@, res.prs)]
                  /\ UNCHANGED <<combined, extraGray>>
          /\ prStatus' = [prStatus EXCEPT ![cand] = tidyActionLabel(cand)]
          /\ applied' = Append(applied, cand)
    /\ rows' = SortStable(timestamp', rows)
    /\ results' = Tail(results)
    /\ UNCHANGED <<attemptVars, cellVars, rendererVars, layoutVars, scanVars, execVars, cmd, pc, defaultWt, facts, ppc, closed, ctxDone, pending,
                   next, ret, interrupted, queries>>

\* the body of `for res := range results`, ui.Update included
TidyRecv ==
    /\ cmd = "tidy"
    /\ pc = "range"
    /\ results # <<>>
    /\ LET res == Head(results)
           cand == res.status
       IN /\ IF ~res.err.nil
             THEN /\ combined' = Append(combined, Entry(cand, res.err))
                  /\ extraGray' = [extraGray EXCEPT ![cand] =
                        Append(@, <<"PR lookup failed: ">>
                                  \o singleLineError(res.err))]
                  /\ UNCHANGED <<pullRequests, timestamp>>
             ELSE /\ pullRequests' = [pullRequests EXCEPT ![cand] = res.prs]
                  /\ timestamp' = [timestamp EXCEPT ![cand] =
                                     Latest(@, res.prs)]
                  /\ UNCHANGED <<combined, extraGray>>
          /\ prStatus' = [prStatus EXCEPT ![cand] = tidyActionLabel(cand)]
          /\ applied' = Append(applied, cand)
    /\ results' = Tail(results)
    /\ UNCHANGED <<attemptVars, cellVars, rendererVars, layoutVars, scanVars, execVars, cmd, pc, rows, defaultWt, facts, ppc, closed, ctxDone,
                   pending, next, ret, interrupted, queries>>

\* the range loop ends when the channel is closed and drained
TidyClosed ==
    /\ cmd = "tidy"
    /\ pc = "range"
    /\ results = <<>>
    /\ closed
    /\ ret' = [kind |-> "joined", errs |-> combined]
    /\ pc' = "done"
    /\ UNCHANGED <<attemptVars, cellVars, rendererVars, layoutVars, scanVars, execVars, cmd, rows, defaultWt, facts, timestamp, prStatus,
                   pullRequests, extraGray, ppc, results, closed, ctxDone,
                   pending, next, combined, applied, interrupted, queries>>

-----------------------------------------------------------------------------

Next ==
    \/ SortStatuses
    \/ StartFetch
    \/ SelectRecv
    \/ SelectClosed
    \/ SelectCtxDone
    \/ TidySort
    \/ TidyStart
    \/ TidyRecv
    \/ TidyClosed
    \/ Cancel
    \/ \E i \in Ids : Producer(i)
    \/ Closer

Spec == Init /\ [][Next]_vars

OrderSpec == InitOrder /\ [][Next]_vars

\* the pipelines over worktrees that cycle through FactSeq
InitLive ==
    /\ InitCommon
    /\ defaultWt = 0
    /\ facts = [i \in Ids |-> FactSeq[((i - 1) % Len(FactSeq)) + 1]]
    /\ timestamp = [i \in Ids |-> 1]

\* ENABLED <<SelectRecv>>_vars: a result is in the channel and the consumer
\* of wt status is at its select
ReceiveReady == cmd = "status" /\ pc = "select" /\ results # <<>>

\* the goroutines are scheduled and every lookup returns; an interrupt may
\* or may not come. The second conjunct of the fairness is WF_vars(SelectRecv)
\* with its enabling condition written out.
PipelineLive ==
    /\ InitLive
    /\ [][Next]_vars
    /\ WF_vars(SortStatuses \/ StartFetch \/ SelectClosed \/ SelectCtxDone
               \/ TidySort \/ TidyStart \/ TidyRecv \/ TidyClosed)
    /\ ([]<>~ReceiveReady \/ []<><<SelectRecv>>_vars)
    /\ WF_vars(\E i \in Ids : Producer(i))
    /\ WF_vars(Closer)

-----------------------------------------------------------------------------
(* Claims *)

\* the priority order as the specification words it: the default worktree
\* first, then the remaining rows in slice order
PriorityOrder ==
    IF defaultWt \in Range(rows)
    THEN <<defaultWt>> \o SelectSeq(rows, LAMBDA x : x # defaultWt)
    ELSE rows

IsLoading(label) == EqualFold(TrimSpace(label), prLoadingLabel)

\* C1: in wt status the results are applied in the priority order whatever
\* order the producers complete in: what has been applied is always a prefix
\* of the priority order, and a result held in pending is for a status the
\* cursor has not reached
C1_AppliedInPriorityOrder ==
    (cmd = "status" /\ pc \in {"select", "done"}) =>
        /\ Len(applied) <= Len(PriorityOrder)
        /\ applied = SubSeq(PriorityOrder, 1, Len(applied))
        /\ \A r \in pending :
            \E k \in (Len(applied) + 2)..Len(PriorityOrder) :
                PriorityOrder[k] = r.status

\* the default worktree is not the first row, its result has been applied and
\* a later result is held while the one before it is outstanding
C1_Witness ==
    /\ cmd = "status"
    /\ PriorityOrder # rows
    /\ Len(applied) = 1
    /\ pending # {}

CancelObserved == cmd = "status" /\ pc = "select" /\ ret'.kind = "ctx"

\* C3 as stated: the step that observes the cancellation sets exactly the
\* statuses whose result was not applied to the interrupted label, calls
\* onUpdate for them in slice order and changes no applied status
C3_Original ==
    [][CancelObserved =>
        /\ \A i \in Range(applied) : prStatus'[i] = prStatus[i]
        /\ \A i \in Ids \ Range(applied) : prStatus'[i] = prInterruptedLabel
        /\ interrupted' = SelectSeq(rows, LAMBDA i : i \notin Range(applied))
      ]_vars

\* C4 as stated: when the fetch returns, no result that was already sent is
\* left in the channel or in the pending buffer
C4_Original ==
    [][(pc \in {"select", "range"} /\ pc' = "done") =>
        (results = <<>> /\ pending = {})]_vars

\* C5 as stated: no lookup that failed because of the cancellation is ever
\* sent on the results channel or joined into the per-candidate errors
C5_Original ==
    /\ \A k \in 1..Len(results) : ~results[k].err.fromCancel
    /\ \A k \in 1..Len(combined) : ~combined[k].err.fromCancel

Failed == {combined[k].name : k \in 1..Len(combined)}

IsUnavailable(label) == label # <<>> /\ label[1] = "PR: unavailable ("

\* C6: a failed lookup gives its own status (in wt tidy: its own candidate's
\* gray reason) an unavailable text that holds no newline, gives no other
\* status that label, and when the fetch returns on the closed channel every
\* lookup that ran has been applied
C6_FailureIsLocal ==
    /\ \A k \in 1..Len(combined) :
        LET e == combined[k] IN
        IF cmd = "status"
        THEN /\ IsUnavailable(prStatus[e.name])
             /\ "\n" \notin Range(prStatus[e.name])
        ELSE /\ extraGray[e.name] # <<>>
             /\ extraGray[e.name][1][1] = "PR lookup failed: "
             /\ "\n" \notin Range(extraGray[e.name][1])
    /\ \A i \in Ids \ Failed : ~IsUnavailable(prStatus[i]) /\ extraGray[i] = <<>>
    /\ (pc = "done" /\ ret.kind = "joined") =>
        /\ Range(applied) = {i \in Ids : ppc[i] = "done"}
        /\ Len(applied) = Cardinality(Range(applied))
        /\ ret.errs = combined

\* the first lookup in the priority order failed with a two-line message, the
\* later ones were still applied and the fetch returned
C6_Witness ==
    /\ cmd = "status"
    /\ pc = "done"
    /\ ~ctxDone
    /\ Len(applied) = NumWorktrees
    /\ Len(combined) = 1
    /\ combined[1].name = applied[1]
    /\ ";" \in Range(prStatus[applied[1]])

\* C7 as stated: the joined error the fetch returns has one entry per failed
\* lookup and none of them is a cancellation
C7_Original ==
    (pc = "done" /\ ret.kind = "joined") =>
        /\ Len(ret.errs) = Cardinality({ret.errs[k].name : k \in 1..Len(ret.errs)})
        /\ \A k \in 1..Len(ret.errs) : ~ret.errs[k].err.fromCancel

Count(s, x) == Cardinality({k \in 1..Len(s) : s[k] = x})

\* C8 as stated: the worktrees on one branch are served by one remote query
C8_Original ==
    \A i \in Ids : Count(queries, facts[i].Branch) <= 1

\* C9: a step of a producer goroutine or of the closer goroutine writes no
\* row field and makes no onUpdate call; a producer sends at most one message,
\* and that message is for its own row
C9_OnlyConsumerWrites ==
    [][((\E i \in Ids : ppc[i] = "running" /\ ppc'[i] = "done")
        \/ closed' # closed) =>
        /\ UNCHANGED <<rows, timestamp, prStatus, pullRequests, extraGray,
                       applied, interrupted, combined, pending, next>>
        /\ \/ results' = results
           \/ \E i \in Ids :
                /\ ppc[i] = "running" /\ ppc'[i] = "done"
                /\ Len(results') = Len(results) + 1
                /\ SubSeq(results', 1, Len(results)) = results
                /\ results'[Len(results')].status = i
      ]_vars

\* the consumer has written a row while a producer is still running and
\* another has finished
C9_Witness ==
    /\ applied # <<>>
    /\ \E i \in Ids : ppc[i] = "running"
    /\ \E i \in Ids : ppc[i] = "done" /\ IsUnavailable(prStatus[i])

IsSorted(order, ts) ==
    /\ Len(order) = NumWorktrees
    /\ Range(order) = Ids
    /\ \A a, b \in 1..Len(order) : a < b => ~Less(ts, order[b], order[a])

\* C10: the sort before the first paint leaves the rows most recent first,
\* equally recent ones by name, and no later step changes the row order
C10_RowOrderFixed ==
    [][/\ (pc = "start" /\ pc' # "start") => IsSorted(rows', timestamp)
       /\ pc # "start" => rows' = rows
      ]_vars

\* a pull request moved a candidate's last activity past that of the rows
\* above it, and the rows are still in the order of the first paint
C10_Witness ==
    /\ pc # "start"
    /\ ~IsSorted(rows, timestamp)

-----------------------------------------------------------------------------
(* The mutating commands: wt tidy (after the PR fetch), wt kill, wt rm *)

NumPids == 3

Pids == 1..NumPids

RECURSIVE SortedSeq(_)
SortedSeq(S) ==
    IF S = {} THEN <<>>
    ELSE LET m == CHOOSE x \in S : \A y \in S : x <= y
         IN <<m>> \o SortedSeq(S \ {m})

\* errors of the process commands: unsupported is
\* errors.Is(err, errProcessUnsupported)
ProcErr(kind, text) ==
    [nil |-> FALSE, text |-> text, canceled |-> FALSE, fromCancel |-> FALSE,
     kind |-> kind, unsupported |-> kind = "unsupported"]

NoProcErr ==
    [nil |-> TRUE, text |-> <<>>, canceled |-> FALSE, fromCancel |-> FALSE,
     kind |-> "nil", unsupported |-> FALSE]

errProcessUnsupported ==
    ProcErr("unsupported",
            <<"process detection unsupported on this platform">>)

\* detectWorktreeProcesses for one root: the running processes whose working
\* directory is inside the worktree, sorted by command label and pid.  Every
\* process runs the same command, none is wt itself or its parent, and none
\* is the child of another.
detectWorktreeProcesses(alive, dirs, w) ==
    SortedSeq({p \in alive : dirs[p] = w})

RECURSIVE joinPIDs(_)
joinPIDs(pids) ==
    IF pids = <<>> THEN <<>>
    ELSE <<ToString(Head(pids))>>
         \o (IF Tail(pids) = <<>> THEN <<>> ELSE <<",", " ">>)
         \o joinPIDs(Tail(pids))

summarizeProcesses(procs) ==
    IF procs = <<>> THEN <<"-">>
    ELSE <<"sleep (">> \o joinPIDs(procs) \o <<")">>

IsProcessReason(reason) ==
    reason # <<>> /\ reason[1] = "processes running: "

removeProcessGrayReason(reasons) ==
    SelectSeq(reasons, LAMBDA r : ~IsProcessReason(r))

\* the processes are attached without their notice
updateCandidateProcessesSilent(c, procs) ==
    [c EXCEPT !.Processes = procs,
              !.extraGrayReasons = removeProcessGrayReason(@)]

\* the notice is appended without removing the one of the last call
updateCandidateProcessesAppending(c, procs) ==
    IF procs = <<>> THEN [c EXCEPT !.Processes = <<>>]
    ELSE [c EXCEPT !.Processes = procs,
                   !.extraGrayReasons =
                       Append(@, <<"processes running: ">>
                                 \o summarizeProcesses(procs))]

updateCandidateProcesses(c, procs) ==
    LET kept == removeProcessGrayReason(c.extraGrayReasons) IN
    IF procs = <<>>
    THEN [c EXCEPT !.extraGrayReasons = kept, !.Processes = <<>>]
    ELSE [c EXCEPT !.Processes = procs,
                   !.extraGrayReasons =
                       IF summarizeProcesses(procs) # <<"-">>
                       THEN Append(kept, <<"processes running: ">>
                                         \o summarizeProcesses(procs))
                       ELSE kept]

\* attachProcessesToCandidates over the given candidates: nothing is touched
\* when the enumerator is unsupported
attachProcessesToCandidates(cs, who, sup, alive, dirs) ==
    IF ~sup THEN cs
    ELSE [i \in Ids |->
            IF i \in who
            THEN updateCandidateProcesses(cs[i],
                     detectWorktreeProcesses(alive, dirs, i))
            ELSE cs[i]]

\* the tidy table after applyDefaults: a threshold that is not positive is
\* replaced by its default
applyDefaults(raw) ==
    [DivergenceCommits |-> IF raw.DivergenceCommits <= 0
                           THEN DefaultTidyConfig.DivergenceCommits
                           ELSE raw.DivergenceCommits,
     StaleDays |-> IF raw.StaleDays <= 0 THEN DefaultTidyConfig.StaleDays
                   ELSE raw.StaleDays]

\* what git reports in a worktree, and the step at which gathering fails:
\* "none", "branch" (gitutil.CurrentBranch, the first step) or "late" (a step
\* after the branch, the dirty flag and the stash were read)
GitData(branch, dirty, hasStash, baseAhead, baseBehind, ts, uniqueAhead, failsAt) ==
    [Branch |-> branch, Dirty |-> dirty, HasStash |-> hasStash,
     BaseAhead |-> baseAhead, BaseBehind |-> baseBehind, Timestamp |-> ts,
     UniqueAhead |-> uniqueAhead, failsAt |-> failsAt]

GitError ==
    [nil |-> FALSE, text |-> <<"exit status 128">>, canceled |-> FALSE,
     fromCancel |-> FALSE]

\* gatherWorktreeGitData returns the data, or nil and the error of the first
\* step that failed; the stash is looked up for a named branch only
gatherWorktreeGitData(d) ==
    IF d.failsAt # "none" THEN [data |-> <<>>, err |-> GitError]
    ELSE [data |-> [d EXCEPT !.HasStash = d.Branch # "" /\ @], err |-> NilErr]

\* markTidyGitError: the error is not one of broken worktree metadata
markTidyGitError(cand, err, t) ==
    [cand EXCEPT
        !.BlockReasons = Append(@, <<"git error: ">> \o singleLineError(err)),
        !.Stage = "blocked",
        !.Branch = IF @ = "" THEN "(unknown)" ELSE @,
        !.LastActivity = IF @ = 0 THEN t ELSE @]

blockReasonCurrentWorktree == <<"currently inside this worktree">>

\* inspectWorktreeBase for the worktree named w, wt running inside worktree
\* wdir; markTidyGitError reads the clock when it stamps the candidate
inspectWorktreeBase(d, w, wdir, cfg, t) ==
    LET got == gatherWorktreeGitData(d) IN
    IF ~got.err.nil
    THEN markTidyGitError([NewCandidate EXCEPT !.Branch = "(unknown)"],
                          got.err, t)
    ELSE LET data == got.data
             reasons ==
                 (IF data.Branch = "" \/ data.Branch = "HEAD"
                  THEN <<<<"detached HEAD">>>> ELSE <<>>)
                 \o (IF data.Branch = DefaultBranch
                     THEN <<<<"branch is the default (", DefaultBranch, ")">>>>
                     ELSE <<>>)
                 \o (IF wdir = w THEN <<blockReasonCurrentWorktree>> ELSE <<>>)
                 \o (IF data.Dirty
                     THEN <<<<"worktree has uncommitted changes">>>> ELSE <<>>)
                 \o (IF data.HasStash
                     THEN <<<<"stash entries reference this branch">>>>
                     ELSE <<>>)
         IN [NewCandidate EXCEPT
                !.Branch = data.Branch, !.IsCurrent = (wdir = w),
                !.Dirty = data.Dirty, !.HasStash = data.HasStash,
                !.BaseAhead = data.BaseAhead, !.BaseBehind = data.BaseBehind,
                !.LastActivity = data.Timestamp,
                !.UniqueAhead = data.UniqueAhead,
                !.divergenceThreshold = cfg.DivergenceCommits,
                !.staleCutoffDays = cfg.StaleDays,
                !.BlockReasons = reasons,
                !.Stage = IF reasons # <<>> THEN "blocked" ELSE "scanning"]

\* strings.Join of worktree names
RECURSIVE JoinNames(_)
JoinNames(names) ==
    IF names = <<>> THEN <<>>
    ELSE <<ToString(Head(names))>>
         \o (IF Tail(names) = <<>> THEN <<>> ELSE <<",", " ">>)
         \o JoinNames(Tail(names))

\* filterOtherWorktrees: the other users of the branch, sorted by name
filterOtherWorktrees(names, current) == SortedSeq(names \ {current})

\* collectTidyCandidates: every worktree but the default one is inspected
\* (the default worktree is none of Ids), then the users of each branch are
\* counted
collectTidyCandidates(data, wdir, cfg, t) ==
    LET base == [i \in Ids |-> inspectWorktreeBase(data[i], i, wdir, cfg, t)]
        branchUsage(br) == {j \in Ids : base[j].Branch = br}
    IN [i \in Ids |->
          LET shared == filterOtherWorktrees(branchUsage(base[i].Branch), i)
          IN [base[i] EXCEPT
                 !.sharedWith = shared,
                 !.BlockReasons =
                     IF shared # <<>>
                     THEN Append(@, <<"branch also used by ">>
                                    \o JoinNames(shared))
                     ELSE @]]

\* the body of the range loop of fetchTidyPullRequests for one result
applyTidyResult(c, o) ==
    IF ~o.err.nil
    THEN [c EXCEPT !.extraGrayReasons =
              Append(@, <<"PR lookup failed: ">> \o singleLineError(o.err))]
    ELSE [c EXCEPT !.PRs = o.prs, !.LastActivity = Latest(@, o.prs)]

absInt(v) == IF v < 0 THEN -v ELSE v

maxInt(x, y) == IF x > y THEN x ELSE y

\* time is counted in ticks
TicksPerDay == 2

\* int(f) of a float: the fraction is dropped, towards zero
TruncDiv(x, y) == IF x >= 0 THEN x \div y ELSE -((-x) \div y)

\* the divergence notice also at the threshold itself
divergenceReasonAtThreshold(c) ==
    IF c.divergenceThreshold > 0
       /\ maxInt(absInt(c.BaseAhead), absInt(c.BaseBehind))
              >= c.divergenceThreshold
    THEN <<<<"diverged +", ToString(c.BaseAhead), "/-",
             ToString(c.BaseBehind), " from ", DefaultBranch>>>>
    ELSE <<>>

\* deriveClassification, the divergence notice
divergenceReason(c) ==
    IF c.divergenceThreshold > 0
       /\ maxInt(absInt(c.BaseAhead), absInt(c.BaseBehind))
              > c.divergenceThreshold
    THEN <<<<"diverged +", ToString(c.BaseAhead), "/-",
             ToString(c.BaseBehind), " from ", DefaultBranch>>>>
    ELSE <<>>

daysOld(c, t) == TruncDiv(t - c.LastActivity, TicksPerDay)

\* the staleness notice also at the cutoff itself
staleReasonAtCutoff(c, t) ==
    IF c.staleCutoffDays > 0 /\ daysOld(c, t) >= c.staleCutoffDays
    THEN <<<<"stale for ", ToString(daysOld(c, t)), " days">>>>
    ELSE <<>>

\* deriveClassification, the staleness notice
staleReason(c, t) ==
    IF c.staleCutoffDays > 0 /\ daysOld(c, t) > c.staleCutoffDays
    THEN <<<<"stale for ", ToString(daysOld(c, t)), " days">>>>
    ELSE <<>>

\* deriveClassification, one notice per open pull request
RECURSIVE openPRReasons(_)
openPRReasons(prs) ==
    IF prs = <<>> THEN <<>>
    ELSE <<<<"PR #", ToString(Head(prs).Number), " ", formatPRState(Head(prs))>>>>
         \o openPRReasons(Tail(prs))

\* a blocked candidate keeps the gray reasons of its last classification
blockedGrayReasonsKept(c) == c.GrayReasons

\* deriveClassification, cand.GrayReasons[:0] of a blocked candidate
blockedGrayReasons(c) == <<>>

\* every candidate needs a decision
needsCleanupDecisionAlways(c) == TRUE

\* deriveClassification: needsCleanupDecision := hasUniqueCommits
needsCleanupDecision(c) == c.UniqueAhead > 0

\* deriveClassification at time t
deriveClassification(c, t) ==
    IF Len(c.BlockReasons) > 0
    THEN [c EXCEPT !.Classification = "blocked",
                   !.Stage = IF @ # "cleaning" /\ @ # "cleaned"
                             THEN "blocked" ELSE @,
                   !.GrayReasons = blockedGrayReasons(c)]
    ELSE LET openPRs == openPullRequests(c.PRs)
             summary == summarizePullRequestState(
                            [HasPendingWork |->
                                 hasPendingWork(c.Dirty, c.HasStash,
                                                c.UniqueAhead),
                             HasUniqueCommits |-> c.UniqueAhead > 0], c.PRs)
             reasons ==
                 c.extraGrayReasons
                 \o (IF needsCleanupDecision(c)
                     THEN <<<<"commits not merged into ", DefaultBranch>>>>
                          \o (IF Len(openPRs) > 0 THEN openPRReasons(openPRs)
                              ELSE IF summary.Reason # <<>>
                                   THEN <<summary.Reason>> ELSE <<>>)
                          \o divergenceReason(c)
                          \o staleReason(c, t)
                     ELSE <<>>)
                 \o (IF Len(c.PRs) > 1
                     THEN << <<"multiple PRs (">> \o JoinNumbers(c.PRs, 1)
                             \o <<")">> >>
                     ELSE <<>>)
             final == IF needsCleanupDecision(c) /\ Len(reasons) = 0
                      THEN <<<<"manual review">>>> ELSE reasons
         IN [c EXCEPT !.GrayReasons = reasons,
                      !.Classification =
                          IF Len(final) = 0 THEN "safe" ELSE "gray",
                      !.Stage = IF Len(final) = 0 THEN "ready" ELSE "prompt"]

\* classifyCandidates: every candidate is classified anew
classifyCandidates(cs, t) == [i \in Ids |-> deriveClassification(cs[i], t)]

\* classifyCandidates returns safe, gray, blocked; the kill targets are
\* safe followed by gray, each in slice order
SafeThenGray(cs) ==
    SelectSeq([i \in 1..NumWorktrees |-> i],
              LAMBDA i : cs[i].Classification = "safe")
    \o SelectSeq([i \in 1..NumWorktrees |-> i],
                 LAMBDA i : cs[i].Classification = "gray")

\* the policy prompts for every candidate that is not blocked
shouldPromptAlways(class, policy) == TRUE

shouldPrompt(class, policy) ==
    CASE policy = "all" -> FALSE
      [] policy = "safe" -> FALSE
      [] policy = "auto" -> class = "gray"
      [] policy = "prompt" -> TRUE
      [] OTHER -> class = "gray"

\* the loop body of executeTidies handles a blocked candidate like any other
tidyDecisionTouchingBlocked(class, manualQuit, policy) ==
    IF manualQuit THEN "quit"
    ELSE IF policy = "safe" /\ class = "gray" THEN "declined"
    ELSE IF shouldPrompt(class, policy) THEN "prompt"
    ELSE "clean"

\* a loop body that goes on after the operator has answered quit
tidyDecisionIgnoringQuit(class, manualQuit, policy) ==
    IF class = "blocked" THEN "blocked"
    ELSE IF policy = "safe" /\ class = "gray" THEN "declined"
    ELSE IF shouldPrompt(class, policy) THEN "prompt"
    ELSE "clean"

\* what the loop body of executeTidies does with a candidate
tidyDecision(class, manualQuit, policy) ==
    IF class = "blocked" THEN "blocked"
    ELSE IF manualQuit THEN "quit"
    ELSE IF policy = "safe" /\ class = "gray" THEN "declined"
    ELSE IF shouldPrompt(class, policy) THEN "prompt"
    ELSE "clean"

\* resolveWorktreeArgs: every argument names a worktree; a worktree named
\* twice is kept once, at its first position
RECURSIVE resolveWorktreeArgs(_, _)
resolveWorktreeArgs(names, seen) ==
    IF names = <<>> THEN <<>>
    ELSE IF Head(names) \in seen
         THEN resolveWorktreeArgs(Tail(names), seen)
         ELSE <<Head(names)>>
              \o resolveWorktreeArgs(Tail(names), seen \cup {Head(names)})

-----------------------------------------------------------------------------
(* Process termination *)

\* the attempt stops at the first pid whose delivery fails
RECURSIVE SignalCallsUntilFailure(_, _, _)
SignalCallsUntilFailure(w, procs, delivered) ==
    IF procs = <<>> THEN <<>>
    ELSE <<[pid |-> Head(procs), wt |-> w, ok |-> Head(procs) \in delivered]>>
         \o (IF Head(procs) \in delivered
             THEN SignalCallsUntilFailure(w, Tail(procs), delivered)
             ELSE <<>>)

\* the Terminate calls of one attempt: in the order of procs, one per pid
SignalCalls(w, procs, delivered) ==
    [k \in 1..Len(procs) |->
        [pid |-> procs[k], wt |-> w, ok |-> procs[k] \in delivered]]

\* errors.Join of the per-pid failures: the texts, one per line
RECURSIVE JoinSignalErrors(_)
JoinSignalErrors(calls) ==
    IF calls = <<>> THEN <<>>
    ELSE LET rest == JoinSignalErrors(Tail(calls)) IN
         IF Head(calls).ok THEN rest
         ELSE <<"sleep (", ToString(Head(calls).pid), "): ",
                "operation not permitted">>
              \o (IF rest = <<>> THEN <<>> ELSE <<"\n">> \o rest)

\* a poll that reads an unsupported enumerator as an empty process list
waitForProcessExitLenient(sup, remaining) ==
    IF ~sup THEN [list |-> <<>>, err |-> NoProcErr]
    ELSE [list |-> remaining, err |-> NoProcErr]

\* waitForProcessExit at its deadline: remaining are the processes of the
\* worktree that are still listed
waitForProcessExit(sup, remaining) ==
    IF ~sup THEN [list |-> <<>>, err |-> errProcessUnsupported]
    ELSE [list |-> remaining, err |-> NoProcErr]

\* terminateWorktreeProcesses: delivered are the pids the signal reaches,
\* remaining the processes of the worktree still running at the deadline
terminateWorktreeProcesses(w, procs, delivered, sup, remaining) ==
    LET calls == SignalCalls(w, procs, delivered)
        errs == JoinSignalErrors(calls)
        wait == waitForProcessExit(sup, remaining)
    IN IF errs # <<>>
       THEN [calls |-> calls, err |-> ProcErr("signal", errs)]
       ELSE IF ~wait.err.nil
       THEN [calls |-> calls, err |-> wait.err]
       ELSE IF wait.list # <<>>
       THEN [calls |-> calls,
             err |-> ProcErr("still",
                        <<"processes still running after ", "3s", ": ">>
                        \o summarizeProcesses(wait.list))]
       ELSE [calls |-> calls, err |-> NoProcErr]

\* what one attempt can do to the processes of worktree w: which signals
\* are delivered, and which of the signalled processes exit in time
Attempts(procs) ==
    UNION {{[delivered |-> d, exits |-> e] : e \in SUBSET d} :
              d \in SUBSET Range(procs)}

-----------------------------------------------------------------------------
(* State when a mutating command starts *)

Safe == Candidate(<<>>, <<>>, 0)

Gray == Candidate(<<>>, <<>>, 1)

Blocked == Candidate(<<<<"worktree has uncommitted changes">>>>, <<>>, 0)

\* every process inside the first worktree, or one process per worktree
ProcLayouts ==
    { [p \in Pids |-> 1], [p \in Pids |-> ((p - 1) % NumWorktrees) + 1] }

ArgChoices ==
    { <<1>>, <<2, 1>>, <<1, 2, 1>>, <<NumWorktrees, 1, 2>> }

OptChoices(c) ==
    CASE c = "tidy" ->
            [policy : {"auto", "safe", "all", "prompt"}, dryRun : BOOLEAN,
             kill : BOOLEAN, force : {FALSE}]
      [] c = "kill" ->
            [policy : {"auto"}, dryRun : BOOLEAN, kill : {TRUE},
             force : {FALSE}]
      [] OTHER ->
            [policy : {"auto"}, dryRun : BOOLEAN, kill : {FALSE},
             force : BOOLEAN]

\* the PR pipelines are not running
PipelineIdle ==
    /\ cmd = "tidy"
    /\ pc = "done"
    /\ rows = [i \in Ids |-> i]
    /\ defaultWt = 0
    /\ facts = [i \in Ids |-> FactSeq[1]]
    /\ timestamp = [i \in Ids |-> 1]
    /\ prStatus = [i \in Ids |-> <<>>]
    /\ pullRequests = [i \in Ids |-> <<>>]
    /\ extraGray = [i \in Ids |-> <<>>]
    /\ ppc = [i \in Ids |-> "idle"]
    /\ results = <<>>
    /\ closed = FALSE
    /\ ctxDone = FALSE
    /\ pending = {}
    /\ next = 0
    /\ combined = <<>>
    /\ ret = [kind |-> "running", errs |-> <<>>]
    /\ applied = <<>>
    /\ interrupted = <<>>
    /\ queries = <<>>

\* a mutating command over every choice of flags, candidates and processes
ExecInit ==
    /\ PipelineIdle
    /\ ScanIdle
    /\ LayoutIdle
    /\ xcmd \in {"tidy", "kill", "rm"}
    /\ xpc = "start"
    /\ opts \in OptChoices(xcmd)
    /\ supported \in BOOLEAN
    /\ args \in (IF xcmd = "tidy" THEN {<<>>} ELSE ArgChoices)
    /\ targets = <<>>
    /\ cands \in (IF xcmd = "kill" THEN {[i \in Ids |-> Safe]}
                  ELSE [Ids -> {Safe, Gray, Blocked}])
    /\ cwd \in ProcLayouts
    /\ live \in {{}, Pids}
    /\ signals = <<>>
    /\ outcome = [i \in Ids |-> "none"]
    /\ cleanups = <<>>
    /\ removed = {}
    /\ prompts = <<>>
    /\ loop = [idx |-> 0, manualQuit |-> FALSE, remoteTouched |-> FALSE,
               changed |-> FALSE, forced |-> {}]
    /\ pruned = FALSE
    /\ visited = <<>>
    /\ xret = [kind |-> "running", errs |-> <<>>]

\* the command returns
Return(kind, errs) ==
    /\ xpc' = "done"
    /\ xret' = [kind |-> kind, errs |-> errs]

-----------------------------------------------------------------------------
(* wt tidy *)

\* runTidy: attachProcessesToCandidates, then (after the PR fetch)
\* classifyCandidates
TidyClassify ==
    /\ xcmd = "tidy"
    /\ xpc = "start"
    /\ cands' = classifyCandidates(
                    attachProcessesToCandidates(cands, Ids, supported, live, cwd),
                    now)
    /\ xpc' = IF opts.kill THEN "kill" ELSE "plan"
    /\ UNCHANGED <<attemptVars, cellVars, rendererVars, layoutVars, scanVars, pipelineVars, xcmd, opts, supported, args, targets, live,
                   cwd, signals, outcome, cleanups, removed, prompts, loop,
                   pruned, visited, xret>>

\* tidyKillProcesses that goes on to signal under --dry-run
TidyKillStartIgnoringDryRun ==
    /\ xcmd = "tidy"
    /\ xpc = "kill"
    /\ LET filtered == SelectSeq(SafeThenGray(cands),
                                 LAMBDA i : cands[i].Processes # <<>>)
       IN IF filtered = <<>>
          THEN /\ xpc' = "plan"
               /\ UNCHANGED <<targets, loop>>
          ELSE /\ xpc' = "killing"
               /\ targets' = filtered
               /\ loop' = [loop EXCEPT !.idx = 1, !.changed = FALSE]
    /\ UNCHANGED <<attemptVars, cellVars, rendererVars, layoutVars, scanVars, pipelineVars, xcmd, opts, supported, args, cands, live,
                   cwd, signals, outcome, cleanups, removed, prompts, pruned,
                   visited, xret>>

\* tidyKillProcesses up to its loop: the safe and gray candidates that have
\* processes; nothing to do without them or with --dry-run
TidyKillStart ==
    /\ xcmd = "tidy"
    /\ xpc = "kill"
    /\ LET filtered == SelectSeq(SafeThenGray(cands),
                                 LAMBDA i : cands[i].Processes # <<>>)
       IN IF filtered = <<>> \/ opts.dryRun
          THEN /\ xpc' = "plan"
               /\ UNCHANGED <<targets, loop>>
          ELSE /\ xpc' = "killing"
               /\ targets' = filtered
               /\ loop' = [loop EXCEPT !.idx = 1, !.changed = FALSE]
    /\ UNCHANGED <<attemptVars, cellVars, rendererVars, layoutVars, scanVars, pipelineVars, xcmd, opts, supported, args, cands, live,
                   cwd, signals, outcome, cleanups, removed, prompts, pruned,
                   visited, xret>>

\* one iteration of the loop of tidyKillProcesses
TidyKillOne ==
    /\ xcmd = "tidy"
    /\ xpc = "killing"
    /\ loop.idx <= Len(targets)
    /\ LET i == targets[loop.idx]
           procs == cands[i].Processes
       IN \E a \in Attempts(procs) :
            LET alive == live \ a.exits
                res == terminateWorktreeProcesses(i, procs, a.delivered,
                           supported, detectWorktreeProcesses(alive, cwd, i))
            IN /\ live' = alive
               /\ signals' = signals \o res.calls
               /\ outcome' = [outcome EXCEPT ![i] = res.err.kind]
               /\ visited' = Append(visited, i)
               /\ IF ~res.err.nil /\ (res.err.unsupported \/ res.err.canceled)
                  THEN /\ Return("error", <<i>>)
                       /\ UNCHANGED <<cands, loop>>
                  ELSE /\ IF ~res.err.nil
                          THEN /\ cands' = [cands EXCEPT ![i].BlockReasons =
                                    Append(@, <<"process cleanup failed: ">>
                                              \o singleLineError(res.err))]
                               /\ loop' = [loop EXCEPT !.idx = @ + 1]
                          ELSE /\ loop' = [loop EXCEPT !.idx = @ + 1,
                                                       !.changed = TRUE]
                               /\ UNCHANGED cands
                       /\ UNCHANGED <<xpc, xret>>
    /\ UNCHANGED <<attemptVars, cellVars, rendererVars, layoutVars, scanVars, pipelineVars, xcmd, opts, supported, args, targets, cwd,
                   cleanups, removed, prompts, pruned>>

\* tidyKillProcesses returns changed; runTidy attaches and classifies again
\* when something changed
TidyKillEnd ==
    /\ xcmd = "tidy"
    /\ xpc = "killing"
    /\ loop.idx > Len(targets)
    /\ cands' = IF loop.changed
                THEN classifyCandidates(
                         attachProcessesToCandidates(cands, Ids, supported,
                                                     live, cwd), now)
                ELSE cands
    /\ xpc' = "plan"
    /\ UNCHANGED <<attemptVars, cellVars, rendererVars, layoutVars, scanVars, pipelineVars, xcmd, opts, supported, args, targets, live,
                   cwd, signals, outcome, cleanups, removed, prompts, loop,
                   pruned, visited, xret>>

\* runTidy: with --dry-run the plan is rendered and nothing runs; otherwise
\* executeTidies starts
TidyPlan ==
    /\ xcmd = "tidy"
    /\ xpc = "plan"
    /\ IF opts.dryRun
       THEN /\ Return("nil", <<>>)
            /\ UNCHANGED <<targets, loop, visited>>
       ELSE /\ xpc' = "exec"
            /\ targets' = [i \in 1..NumWorktrees |-> i]
            /\ loop' = [loop EXCEPT !.idx = 1, !.manualQuit = FALSE,
                                    !.remoteTouched = FALSE]
            /\ visited' = <<>>
            /\ UNCHANGED xret
    /\ UNCHANGED <<attemptVars, cellVars, rendererVars, layoutVars, scanVars, pipelineVars, xcmd, opts, supported, args, cands, live,
                   cwd, signals, outcome, cleanups, removed, prompts, pruned>>

SetStage(i, stage) == cands' = [cands EXCEPT ![i].Stage = stage]

\* performCleanup for candidate i: it fails before anything is removed, or
\* removes the worktree and then fails or succeeds, with or without having
\* deleted a remote branch
CleanupResults ==
    { [removed |-> FALSE, touched |-> FALSE, failed |-> TRUE],
      [removed |-> TRUE, touched |-> FALSE, failed |-> TRUE],
      [removed |-> TRUE, touched |-> FALSE, failed |-> FALSE],
      [removed |-> TRUE, touched |-> TRUE, failed |-> FALSE] }

\* the answers promptForCandidate tells apart: yes, quit, anything else
Answers == {"y", "q", "n"}

\* one iteration of the loop of executeTidies
ExecuteOne ==
    /\ xcmd = "tidy"
    /\ xpc = "exec"
    /\ loop.idx <= Len(targets)
    /\ LET i == targets[loop.idx]
           c == cands[i]
           skip(stage) ==
               /\ SetStage(i, stage)
               /\ loop' = [loop EXCEPT !.idx = @ + 1]
               /\ UNCHANGED <<cleanups, removed, prompts, xpc, xret>>
           clean(quit) ==
               \E r \in CleanupResults :
                 /\ cleanups' = Append(cleanups, i)
                 /\ removed' = IF r.removed THEN removed \cup {i} ELSE removed
                 /\ IF r.failed
                    THEN /\ SetStage(i, "error")
                         /\ Return("error", <<i>>)
                         /\ loop' = [loop EXCEPT !.manualQuit = @ \/ quit]
                    ELSE /\ SetStage(i, "cleaned")
                         /\ loop' = [loop EXCEPT
                                !.idx = @ + 1,
                                !.manualQuit = @ \/ quit,
                                !.remoteTouched = @ \/ r.touched]
                         /\ UNCHANGED <<xpc, xret>>
           decision == tidyDecision(c.Classification, loop.manualQuit,
                                    opts.policy)
       IN /\ visited' = Append(visited, i)
          /\ IF decision = "blocked"
             THEN skip("blocked")
             ELSE IF decision \in {"quit", "declined"}
             THEN skip("skipped")
             ELSE IF decision = "prompt"
             THEN \E answer \in Answers :
                    /\ prompts' = Append(prompts,
                                         [wt |-> i, answer |-> answer])
                    /\ IF answer = "y"
                       THEN clean(FALSE)
                       ELSE /\ SetStage(i, "skipped")
                            /\ loop' = [loop EXCEPT
                                   !.idx = @ + 1,
                                   !.manualQuit = @ \/ answer = "q"]
                            /\ UNCHANGED <<cleanups, removed, xpc, xret>>
             ELSE /\ clean(FALSE)
                  /\ UNCHANGED prompts
    /\ UNCHANGED <<attemptVars, cellVars, rendererVars, layoutVars, scanVars, pipelineVars, xcmd, opts, supported, args, targets, live,
                   cwd, signals, outcome, pruned>>

\* executeTidies after its loop: pruneRemote once when a remote branch was
\* deleted
ExecuteEnd ==
    /\ xcmd = "tidy"
    /\ xpc = "exec"
    /\ loop.idx > Len(targets)
    /\ IF loop.remoteTouched
       THEN /\ pruned' = TRUE
            /\ \E ok \in BOOLEAN :
                 IF ok THEN Return("nil", <<>>) ELSE Return("error", <<>>)
       ELSE /\ Return("nil", <<>>)
            /\ UNCHANGED pruned
    /\ UNCHANGED <<attemptVars, cellVars, rendererVars, layoutVars, scanVars, pipelineVars, xcmd, opts, supported, args, targets, cands,
                   live, cwd, signals, outcome, cleanups, removed, prompts,
                   loop, visited>>

-----------------------------------------------------------------------------
(* wt kill *)

\* runKill up to its loop: the targets are resolved and their processes
\* detected once; cands[i].Processes holds processMap[key] of target i
KillStart ==
    /\ xcmd = "kill"
    /\ xpc = "start"
    /\ targets' = resolveWorktreeArgs(args, {})
    /\ IF ~supported
       THEN /\ Return("error", <<>>)
            /\ UNCHANGED <<cands, loop>>
       ELSE /\ cands' = [i \in Ids |->
                  [cands[i] EXCEPT !.Processes =
                      IF i \in Range(targets')
                      THEN detectWorktreeProcesses(live, cwd, i) ELSE <<>>]]
            /\ xpc' = "killing"
            /\ loop' = [loop EXCEPT !.idx = 1]
            /\ UNCHANGED xret
    /\ UNCHANGED <<attemptVars, cellVars, rendererVars, layoutVars, scanVars, pipelineVars, xcmd, opts, supported, args, live, cwd,
                   signals, outcome, cleanups, removed, prompts, pruned,
                   visited>>

\* the loop over the targets ends at the first target that fails
KillOneStopping ==
    /\ xcmd = "kill"
    /\ xpc = "killing"
    /\ loop.idx <= Len(targets)
    /\ LET i == targets[loop.idx]
           procs == cands[i].Processes
       IN /\ visited' = Append(visited, i)
          /\ IF procs = <<>> \/ opts.dryRun
             THEN /\ outcome' = [outcome EXCEPT ![i] =
                        IF procs = <<>> THEN "nothing" ELSE "would"]
                  /\ loop' = [loop EXCEPT !.idx = @ + 1]
                  /\ UNCHANGED <<live, signals, xret>>
             ELSE \E a \in Attempts(procs) :
                    LET alive == live \ a.exits
                        res == terminateWorktreeProcesses(i, procs,
                                   a.delivered, supported,
                                   detectWorktreeProcesses(alive, cwd, i))
                    IN /\ live' = alive
                       /\ signals' = signals \o res.calls
                       /\ outcome' = [outcome EXCEPT ![i] =
                              IF res.err.nil THEN "cleared" ELSE res.err.kind]
                       /\ xret' = IF res.err.nil THEN xret
                                  ELSE [xret EXCEPT !.errs = Append(@, i)]
                       /\ loop' = [loop EXCEPT !.idx =
                              IF res.err.nil THEN @ + 1 ELSE Len(targets) + 1]
    /\ UNCHANGED <<attemptVars, cellVars, rendererVars, layoutVars, scanVars, pipelineVars, xcmd, xpc, opts, supported, args, targets,
                   cands, cwd, cleanups, removed, prompts, pruned>>

\* one iteration of the loop of runKill
KillOne ==
    /\ xcmd = "kill"
    /\ xpc = "killing"
    /\ loop.idx <= Len(targets)
    /\ LET i == targets[loop.idx]
           procs == cands[i].Processes
       IN /\ visited' = Append(visited, i)
          /\ loop' = [loop EXCEPT !.idx = @ + 1]
          /\ IF procs = <<>> \/ opts.dryRun
             THEN /\ outcome' = [outcome EXCEPT ![i] =
                        IF procs = <<>> THEN "nothing" ELSE "would"]
                  /\ UNCHANGED <<live, signals, xret>>
             ELSE \E a \in Attempts(procs) :
                    LET alive == live \ a.exits
                        res == terminateWorktreeProcesses(i, procs,
                                   a.delivered, supported,
                                   detectWorktreeProcesses(alive, cwd, i))
                    IN /\ live' = alive
                       /\ signals' = signals \o res.calls
                       /\ outcome' = [outcome EXCEPT ![i] =
                              IF res.err.nil THEN "cleared" ELSE res.err.kind]
                       /\ xret' = IF res.err.nil THEN xret
                                  ELSE [xret EXCEPT !.errs = Append(@, i)]
    /\ UNCHANGED <<attemptVars, cellVars, rendererVars, layoutVars, scanVars, pipelineVars, xcmd, xpc, opts, supported, args, targets,
                   cands, cwd, cleanups, removed, prompts, pruned>>

\* runKill returns the joined error
KillEnd ==
    /\ xcmd = "kill"
    /\ xpc = "killing"
    /\ loop.idx > Len(targets)
    /\ Return(IF xret.errs = <<>> THEN "nil" ELSE "error", xret.errs)
    /\ UNCHANGED <<attemptVars, cellVars, rendererVars, layoutVars, scanVars, pipelineVars, xcmd, opts, supported, args, targets, cands,
                   live, cwd, signals, outcome, cleanups, removed, prompts,
                   loop, pruned, visited>>

-----------------------------------------------------------------------------
(* wt rm *)

\* the candidates of the targets up to the first blocked one are classified
RECURSIVE ClassifyUntilBlocked(_, _)
ClassifyUntilBlocked(cs, ts) ==
    IF ts = <<>> THEN cs
    ELSE LET c == deriveClassification(cs[Head(ts)], now)
             cs2 == [cs EXCEPT ![Head(ts)] = c]
         IN IF c.Classification = "blocked" THEN cs2
            ELSE ClassifyUntilBlocked(cs2, Tail(ts))

\* runRm: with --force the block reasons of every target are dropped
forceClear(cs, ts, force) ==
    IF ~force THEN cs
    ELSE [i \in Ids |->
            IF i \in Range(ts) /\ cs[i].BlockReasons # <<>>
            THEN [cs[i] EXCEPT !.BlockReasons = <<>>, !.Stage = "scanning"]
            ELSE cs[i]]

\* runRm up to its loop: the targets are resolved, forced, scanned for
\* processes and classified; a blocked target ends the command with an
\* error, --dry-run ends it after the plan is rendered
RmStart ==
    /\ xcmd = "rm"
    /\ xpc = "start"
    /\ LET ts == resolveWorktreeArgs(args, {})
           forced == forceClear(cands, ts, opts.force)
           attached == attachProcessesToCandidates(forced, Range(ts),
                                                   supported, live, cwd)
           cs == ClassifyUntilBlocked(attached, ts)
           forcedReasons ==
               IF opts.force
               THEN {i \in Range(ts) : cands[i].BlockReasons # <<>>}
               ELSE {}
       IN /\ targets' = ts
          /\ cands' = cs
          /\ IF \E i \in Range(ts) : cs[i].Classification = "blocked"
             THEN /\ Return("error", <<>>)
                  /\ loop' = [loop EXCEPT !.forced = forcedReasons]
             ELSE IF opts.dryRun
             THEN /\ Return("nil", <<>>)
                  /\ loop' = [loop EXCEPT !.forced = forcedReasons]
             ELSE /\ xpc' = "rm"
                  /\ loop' = [loop EXCEPT !.idx = 1,
                                          !.forced = forcedReasons]
                  /\ UNCHANGED xret
    /\ UNCHANGED <<attemptVars, cellVars, rendererVars, layoutVars, scanVars, pipelineVars, xcmd, opts, supported, args, live, cwd,
                   signals, outcome, cleanups, removed, prompts, pruned,
                   visited>>

\* performRmCleanup: with force a failure after the directory is gone is
\* only a warning
RmCleanupResults(force) ==
    IF force THEN {r \in CleanupResults : ~(r.removed /\ r.failed)}
    ELSE CleanupResults

\* one iteration of the loop of runRm
RmOne ==
    /\ xcmd = "rm"
    /\ xpc = "rm"
    /\ loop.idx <= Len(targets)
    /\ LET i == targets[loop.idx]
           c == cands[i]
           clean ==
               \E r \in RmCleanupResults(opts.force) :
                 /\ cleanups' = Append(cleanups, i)
                 /\ removed' = IF r.removed THEN removed \cup {i} ELSE removed
                 /\ IF r.failed
                    THEN /\ Return("error", <<i>>)
                         /\ UNCHANGED loop
                    ELSE /\ loop' = [loop EXCEPT
                                !.idx = @ + 1,
                                !.remoteTouched = @ \/ r.touched]
                         /\ UNCHANGED <<xpc, xret>>
       IN /\ visited' = Append(visited, i)
          /\ IF c.Classification = "gray" /\ ~opts.force
             THEN \E answer \in Answers :
                    /\ prompts' = Append(prompts,
                                         [wt |-> i, answer |-> answer])
                    /\ CASE answer = "y" -> clean
                         [] answer = "q" ->
                              /\ Return("nil", <<>>)
                              /\ UNCHANGED <<cleanups, removed, loop>>
                         [] OTHER ->
                              /\ loop' = [loop EXCEPT !.idx = @ + 1]
                              /\ UNCHANGED <<cleanups, removed, xpc, xret>>
             ELSE /\ clean
                  /\ UNCHANGED prompts
    /\ UNCHANGED <<attemptVars, cellVars, rendererVars, layoutVars, scanVars, pipelineVars, xcmd, opts, supported, args, targets, cands,
                   live, cwd, signals, outcome, pruned>>

\* runRm after its loop
RmEnd ==
    /\ xcmd = "rm"
    /\ xpc = "rm"
    /\ loop.idx > Len(targets)
    /\ IF loop.remoteTouched
       THEN /\ pruned' = TRUE
            /\ \E ok \in BOOLEAN :
                 IF ok THEN Return("nil", <<>>) ELSE Return("error", <<>>)
       ELSE /\ Return("nil", <<>>)
            /\ UNCHANGED pruned
    /\ UNCHANGED <<attemptVars, cellVars, rendererVars, layoutVars, scanVars, pipelineVars, xcmd, opts, supported, args, targets, cands,
                   live, cwd, signals, outcome, cleanups, removed, prompts,
                   loop, visited>>

-----------------------------------------------------------------------------

\* the enumerator stops being supported while a command runs: /proc is gone
LoseProc ==
    /\ xcmd # "none"
    /\ xpc \notin {"start", "done"}
    /\ supported
    /\ supported' = FALSE
    /\ UNCHANGED <<attemptVars, cellVars, rendererVars, layoutVars, scanVars, pipelineVars, xcmd, xpc, opts, args, targets, cands, live,
                   cwd, signals, outcome, cleanups, removed, prompts, loop,
                   pruned, visited, xret>>

ExecNext ==
    \/ TidyClassify
    \/ TidyKillStart
    \/ TidyKillOne
    \/ TidyKillEnd
    \/ TidyPlan
    \/ ExecuteOne
    \/ ExecuteEnd
    \/ KillStart
    \/ KillOne
    \/ KillEnd
    \/ RmStart
    \/ RmOne
    \/ RmEnd
    \/ LoseProc

ExecSpec == ExecInit /\ [][ExecNext]_vars

-----------------------------------------------------------------------------
(* Claims on the mutating commands *)

KillFailed(i) == outcome[i] \in {"signal", "still", "unsupported"}

\* C11 as stated: in wt tidy --kill a worktree whose termination attempt
\* returned an error is never handed to performCleanup, and it is
\* classified blocked whenever the execution loop runs
C11_Original ==
    \A i \in Ids :
        (xcmd = "tidy" /\ KillFailed(i)) =>
            /\ i \notin Range(cleanups)
            /\ xpc = "exec" => cands[i].Classification = "blocked"

FirstIndex(s, x) ==
    CHOOSE k \in 1..Len(s) : s[k] = x /\ \A j \in 1..(k - 1) : s[j] # x

\* the loop of the command ran: its setup did not fail
LoopRan == loop.idx > 0

\* C12: wt kill attempts every target once, in the order of the arguments,
\* whatever fails on the way: the targets are the arguments without
\* repetition, what has been handled is a prefix of them, no pid is
\* signalled twice, and when the command returns after its loop every target
\* was handled, a cleared target has no process left and is not in the
\* error, and the error is non-nil exactly when some target failed
C12_KillAttemptsEveryTarget ==
    xcmd = "kill" =>
        /\ Len(visited) <= Len(targets)
        /\ visited = SubSeq(targets, 1, Len(visited))
        /\ xpc # "start" => Range(targets) = Range(args)
        /\ \A k, l \in 1..Len(targets) :
             k < l => /\ targets[k] # targets[l]
                      /\ FirstIndex(args, targets[k])
                           < FirstIndex(args, targets[l])
        /\ \A k, l \in 1..Len(signals) :
             k # l => signals[k].pid # signals[l].pid
        /\ (xpc = "done" /\ LoopRan) =>
             /\ visited = targets
             /\ xret.kind \in {"nil", "error"}
             /\ xret.kind = "error" <=> \E i \in Range(targets) : KillFailed(i)
             /\ \A i \in Range(targets) :
                  /\ KillFailed(i) <=> i \in Range(xret.errs)
                  /\ outcome[i] = "cleared" =>
                       detectWorktreeProcesses(live, cwd, i) = <<>>

\* wt kill has returned; its first target failed and a later one cleared
C12_Witness ==
    /\ xcmd = "kill"
    /\ xpc = "done"
    /\ Len(targets) >= 2
    /\ KillFailed(targets[1])
    /\ outcome[targets[2]] = "cleared"

\* C13 as stated: wt tidy returns nil only when no candidate is left
\* blocked, failed or with processes that refused to exit
C13_Original ==
    (xcmd = "tidy" /\ xpc = "done" /\ ~opts.dryRun /\ xret.kind = "nil") =>
        \A i \in Ids :
            /\ cands[i].BlockReasons = <<>>
            /\ cands[i].Stage \notin {"blocked", "error"}
            /\ ~KillFailed(i)

\* the Terminate calls a step has added
NewSignals == SubSeq(signals', Len(signals) + 1, Len(signals'))

\* C14: an unsupported enumerator is its own condition.  While it is
\* unsupported no step changes a candidate's process list or gathers a
\* "processes running" reason for it; wt kill that starts unsupported returns an error without a
\* signal sent; and a termination attempt whose signals were all delivered
\* ends as unsupported, never as cleared or as still running
C14_UnsupportedIsDistinct ==
    [][~supported =>
        /\ \A i \in Ids :
             /\ cands'[i].Processes = cands[i].Processes
             /\ cands'[i].extraGrayReasons = cands[i].extraGrayReasons
             /\ \A r \in Range(cands'[i].GrayReasons) :
                  IsProcessReason(r) => r \in Range(cands[i].extraGrayReasons)
        /\ (xcmd = "kill" /\ xpc = "start") =>
             (xpc' = "done" /\ xret'.kind = "error" /\ signals' = <<>>)
        /\ \A i \in Ids :
             outcome'[i] # outcome[i] =>
               /\ outcome'[i] \in {"signal", "unsupported", "nothing", "would"}
               /\ outcome'[i] = "unsupported" <=>
                    (NewSignals # <<>>
                     /\ \A k \in 1..Len(NewSignals) : NewSignals[k].ok)
      ]_vars

\* a termination attempt delivered its signals and its poll found the
\* enumerator unsupported
C14_Witness ==
    /\ ~supported
    /\ \E i \in Ids :
         /\ outcome[i] = "unsupported"
         /\ cands[i].Processes # <<>>
         /\ \A k \in 1..Len(signals) : signals[k].wt = i => signals[k].ok

\* C15: a termination attempt signals every pid of the worktree, in order,
\* whatever delivery fails; with a failure the attempt ends as a signal
\* failure, and in wt tidy the block reason it leaves names every pid whose
\* delivery failed
C15_EveryPidSignalled ==
    [][signals' # signals =>
        \E i \in Ids :
          /\ visited' = Append(visited, i)
          /\ Len(NewSignals) = Len(cands[i].Processes)
          /\ \A k \in 1..Len(NewSignals) :
               /\ NewSignals[k].pid = cands[i].Processes[k]
               /\ NewSignals[k].wt = i
          /\ (\E k \in 1..Len(NewSignals) : ~NewSignals[k].ok)
               <=> outcome'[i] = "signal"
          /\ (xcmd = "tidy" /\ outcome'[i] = "signal") =>
               /\ Len(cands'[i].BlockReasons) = Len(cands[i].BlockReasons) + 1
               /\ \A k \in 1..Len(NewSignals) :
                    ~NewSignals[k].ok <=>
                      ToString(NewSignals[k].pid) \in
                        Range(cands'[i].BlockReasons[Len(cands'[i].BlockReasons)])
               /\ "\n" \notin
                    Range(cands'[i].BlockReasons[Len(cands'[i].BlockReasons)])
      ]_vars

\* an attempt went on after a delivery failure: some call failed and a later
\* call of the same attempt was made
C15_Witness ==
    \E k \in 1..Len(signals) :
        /\ ~signals[k].ok
        /\ k < Len(signals)
        /\ signals[k + 1].wt = signals[k].wt
        /\ signals[k + 1].ok

Prompted == {prompts[k].wt : k \in 1..Len(prompts)}

\* C16: in wt tidy a candidate that is classified blocked when the execution
\* loop reaches it is never handed to performCleanup and never prompted for,
\* and from then on its stage is blocked, under every policy
C16_BlockedNeverTouched ==
    \A i \in Ids :
        (xcmd = "tidy" /\ xpc \in {"exec", "done"}
         /\ cands[i].Classification = "blocked") =>
            /\ i \notin Range(cleanups)
            /\ i \notin Prompted
            /\ i \notin removed
            /\ (LoopRan /\ i \in Range(visited)) => cands[i].Stage = "blocked"

\* the execution loop has passed a blocked candidate and has cleaned a
\* later one
C16_Witness ==
    /\ xcmd = "tidy"
    /\ xpc = "done"
    /\ Len(visited) >= 2
    /\ cands[visited[1]].Classification = "blocked"
    /\ cands[visited[1]].Stage = "blocked"
    /\ visited[2] \in Range(cleanups)

C18_DryRunMutatesNothing ==
    [][(opts.dryRun /\ xcmd \in {"tidy", "kill"}) =>
        /\ cleanups' = <<>>
        /\ pruned' = FALSE
        /\ signals' = <<>>
        /\ removed' = removed
        /\ live' = live
      ]_vars

\* wt tidy --kill --dry-run has returned, and a candidate it would clean
\* has running processes
C18_Witness ==
    /\ xcmd = "tidy"
    /\ opts.dryRun
    /\ opts.kill
    /\ xpc = "done"
    /\ xret.kind = "nil"
    /\ \E i \in Ids :
         /\ cands[i].Classification \in {"safe", "gray"}
         /\ cands[i].Processes # <<>>
         /\ Range(cands[i].Processes) \subseteq live

\* C19 as stated: when a cleanup fails in the loop of wt tidy or of wt rm,
\* the command returns its error only after every worktree was handled
C19_Original ==
    (xcmd \in {"tidy", "rm"} /\ xpc = "done" /\ xret.kind = "error"
     /\ cleanups # <<>>) =>
        visited = targets

\* C20 as stated: when a target of wt rm is blocked, with or without
\* --force, nothing is removed and the command returns an error
C20_Original ==
    (xcmd = "rm"
     /\ \E i \in Range(targets) :
          cands[i].BlockReasons # <<>> \/ i \in loop.forced) =>
        /\ cleanups = <<>>
        /\ removed = {}
        /\ xpc = "done" => xret.kind = "error"

-----------------------------------------------------------------------------
(* wt tidy from collectTidyCandidates to the plan *)

MaxCommits == 3
MaxAgeTicks == 4

\* the clock reading of the run; every timestamp read lies before it
ScanNow == MaxAgeTicks + 2

\* the tidy tables explored, as written in the configuration file
ConfigChoices ==
    { [DivergenceCommits |-> 0, StaleDays |-> 0],
      [DivergenceCommits |-> 1, StaleDays |-> 1],
      [DivergenceCommits |-> 2, StaleDays |-> 1] }

\* worktrees that differ in their block conditions: merged, fresh work
BlockData ==
    { GitData(br, dirty, stash, 0, 0, ScanNow, 0, f) :
        br \in {"", DefaultBranch, "a"}, dirty \in BOOLEAN,
        stash \in BOOLEAN, f \in {"none", "branch", "late"} }

AheadBehind ==
    { <<k, 0>> : k \in 0..MaxCommits } \cup { <<0, k>> : k \in 0..MaxCommits }

\* clean worktrees on a branch of their own that differ in their unique
\* commits, their distance to the default branch and their age
GrayData ==
    { GitData("a", FALSE, FALSE, ab[1], ab[2], ScanNow - age, u, "none") :
        ab \in AheadBehind, age \in 0..MaxAgeTicks, u \in {0, 1} }

\* 5 unique commits, ahead 25 / behind 0, last activity one day ago
ExampleData ==
    GitData("a", FALSE, FALSE, 25, 0, ScanNow - TicksPerDay, 5, "none")

\* the second worktree: merged work on the branch "a" or on its own branch
SecondData ==
    { GitData(br, FALSE, FALSE, 0, 0, ScanNow, 0, "none") : br \in {"a", "b"} }

\* every further worktree holds unmerged work on a branch of its own
FurtherData(i) ==
    GitData(<<"c", "d", "e", "f", "g">>[i - 2], FALSE, FALSE, 1, 0, ScanNow,
            1, "none")

\* what gh lists for the first worktree's branch: nothing, one open pull
\* request, one merged pull request updated just now, four pull requests of
\* every kind; the lookup can also fail
ScanPRLists ==
    { <<>>,
      <<PullRequest(42, "OPEN", FALSE, 1)>>,
      <<PullRequest(7, "MERGED", FALSE, ScanNow)>>,
      <<PullRequest(1, "OPEN", TRUE, 1), PullRequest(2, "OPEN", FALSE, 1),
        PullRequest(3, "CLOSED", FALSE, 1), PullRequest(4, "MERGED", FALSE, 1)>> }

ScanOutcomes(i) ==
    IF i = 1
    THEN { Outcome(prs, NilErr, TRUE) : prs \in ScanPRLists }
         \cup { Outcome(<<>>, GhPrListError(e, ExitError), TRUE) :
                  e \in Stderrs }
    ELSE { Outcome(<<>>, NilErr, TRUE) }

\* wt tidy starts: runTidy has resolved its flags and read the clock
ClassifyInit ==
    /\ PipelineIdle
    /\ LayoutIdle
    /\ xcmd = "tidy"
    /\ xpc = "scan"
    /\ opts \in [policy : {"auto"}, dryRun : {FALSE}, kill : BOOLEAN,
                 force : {FALSE}]
    /\ supported \in BOOLEAN
    /\ args = <<>>
    /\ targets = <<>>
    /\ cands = [i \in Ids |-> NewCandidate]
    /\ \E lc \in {<<{}, [p \in Pids |-> 1]>>}
                 \cup {<<Pids, l>> : l \in ProcLayouts} :
         /\ live = lc[1]
         /\ cwd = lc[2]
    /\ signals = <<>>
    /\ outcome = [i \in Ids |-> "none"]
    /\ cleanups = <<>>
    /\ removed = {}
    /\ prompts = <<>>
    /\ loop = [idx |-> 0, manualQuit |-> FALSE, remoteTouched |-> FALSE,
               changed |-> FALSE, forced |-> {}]
    /\ pruned = FALSE
    /\ visited = <<>>
    /\ xret = [kind |-> "running", errs |-> <<>>]
    /\ tidyConfig \in { applyDefaults(raw) : raw \in ConfigChoices }
    /\ now = ScanNow
    /\ wd \in {0, 1}
    /\ gitData \in
         { [i \in Ids |-> IF i = 1 THEN first
                          ELSE IF i = 2 THEN second ELSE FurtherData(i)] :
             first \in BlockData \cup GrayData \cup {ExampleData},
             second \in SecondData }

\* runTidy: collectTidyCandidates
ScanCollect ==
    /\ xcmd = "tidy"
    /\ xpc = "scan"
    /\ cands' = collectTidyCandidates(gitData, wd, tidyConfig, now)
    /\ xpc' = "attach"
    /\ UNCHANGED <<attemptVars, cellVars, rendererVars, layoutVars, scanVars, pipelineVars, xcmd, opts, supported, args,
                   targets, live, cwd, signals, outcome, cleanups, removed,
                   prompts, loop, pruned, visited, xret>>

\* runTidy: attachProcessesToCandidates
ScanAttach ==
    /\ xcmd = "tidy"
    /\ xpc = "attach"
    /\ cands' = attachProcessesToCandidates(cands, Ids, supported, live, cwd)
    /\ xpc' = "fetch"
    /\ UNCHANGED <<attemptVars, cellVars, rendererVars, layoutVars, scanVars, pipelineVars, xcmd, opts, supported, args,
                   targets, live, cwd, signals, outcome, cleanups, removed,
                   prompts, loop, pruned, visited, xret>>

\* runTidy: fetchTidyPullRequests, one result per candidate that has no block
\* reason; the order of arrival changes no candidate
ScanFetch ==
    /\ xcmd = "tidy"
    /\ xpc = "fetch"
    /\ \E o1 \in ScanOutcomes(1) :
         cands' = [i \in Ids |->
                     IF Len(cands[i].BlockReasons) > 0 THEN cands[i]
                     ELSE applyTidyResult(cands[i],
                              IF i = 1 THEN o1
                              ELSE CHOOSE o \in ScanOutcomes(i) : TRUE)]
    /\ xpc' = "classify"
    /\ UNCHANGED <<attemptVars, cellVars, rendererVars, layoutVars, scanVars, pipelineVars, xcmd, opts, supported, args,
                   targets, live, cwd, signals, outcome, cleanups, removed,
                   prompts, loop, pruned, visited, xret>>

\* runTidy: classifyCandidates
ScanClassify ==
    /\ xcmd = "tidy"
    /\ xpc = "classify"
    /\ cands' = classifyCandidates(cands, now)
    /\ xpc' = IF opts.kill THEN "kill" ELSE "plan"
    /\ UNCHANGED <<attemptVars, cellVars, rendererVars, layoutVars, scanVars, pipelineVars, xcmd, opts, supported, args,
                   targets, live, cwd, signals, outcome, cleanups, removed,
                   prompts, loop, pruned, visited, xret>>

ClassifyNext ==
    \/ ScanCollect
    \/ ScanAttach
    \/ ScanFetch
    \/ ScanClassify
    \/ TidyKillStart
    \/ TidyKillOne
    \/ TidyKillEnd

ClassifySpec == ClassifyInit /\ [][ClassifyNext]_vars

-----------------------------------------------------------------------------
(* Claims on the classification *)

Classified(i) == cands[i].Classification # ""

HasReason(reasons, first) ==
    \E k \in 1..Len(reasons) : reasons[k] # <<>> /\ reasons[k][1] = first

ConditionsHeld(i) ==
    LET d == gitData[i]
        read(j) == gitData[j].failsAt \in {"none", "late"}
    IN (IF read(i) /\ d.Branch \in {"", "HEAD"}
        THEN {"detached HEAD"} ELSE {})
       \cup (IF read(i) /\ d.Branch = DefaultBranch
             THEN {"branch is the default ("} ELSE {})
       \cup (IF read(i) /\ d.Dirty
             THEN {"worktree has uncommitted changes"} ELSE {})
       \cup (IF read(i) /\ d.HasStash /\ d.Branch # ""
             THEN {"stash entries reference this branch"} ELSE {})
       \cup (IF read(i) /\ d.Branch \notin {"", "HEAD"}
                /\ \E j \in Ids \ {i} :
                     read(j) /\ gitData[j].Branch = d.Branch
             THEN {"branch also used by "} ELSE {})
       \cup (IF d.failsAt # "none" THEN {"git error: "} ELSE {})

\* C22 as stated: once the candidates are collected, the block reasons of a
\* candidate hold one entry per block condition that holds for it, and a
\* classified candidate with such a condition is blocked
C22_Original ==
    xpc # "scan" =>
      \A i \in Ids :
        /\ \A first \in ConditionsHeld(i) :
             HasReason(cands[i].BlockReasons, first)
        /\ (Classified(i) /\ ConditionsHeld(i) # {}) =>
              cands[i].Classification = "blocked"

NotBlocked(i) == cands[i].Classification \in {"safe", "gray"}

\* max(|ahead|, |behind|) of a candidate
Divergence(i) ==
    LET a == cands[i].BaseAhead
        b == cands[i].BaseBehind
        absA == IF a < 0 THEN 0 - a ELSE a
        absB == IF b < 0 THEN 0 - b ELSE b
    IN IF absA > absB THEN absA ELSE absB

Age(i) == now - cands[i].LastActivity

ReasonRank(r) ==
    IF r = <<>> THEN 0
    ELSE IF r[1] = "commits not merged into " THEN 1
    ELSE IF r[1] = "PR #" /\ Len(r) = 4 THEN 2
    ELSE IF r[1] = "PR #" \/ r[1] = "No PR" THEN 3
    ELSE IF r[1] = "diverged +" THEN 4
    ELSE IF r[1] = "stale for " THEN 5
    ELSE IF r[1] = "multiple PRs (" THEN 6
    ELSE IF r[1] = "processes running: " THEN 7
    ELSE 0

InDocumentedOrder(reasons) ==
    \A j, k \in 1..Len(reasons) :
      (j < k /\ ReasonRank(reasons[j]) > 0 /\ ReasonRank(reasons[k]) > 0)
        => ReasonRank(reasons[j]) <= ReasonRank(reasons[k])

\* the number of pull requests a multiple-PRs notice names
NumbersNamed(r) == Cardinality({k \in 1..Len(r) : r[k] = "#"})

\* the candidate of the documented example: 5 unique commits, the open
\* PR #42, 25 ahead and 0 behind, thresholds 20 and 14, active a day ago
IsExample(i) ==
    /\ Classified(i) /\ cands[i].BlockReasons = <<>>
    /\ cands[i].extraGrayReasons = <<>>
    /\ cands[i].UniqueAhead = 5
    /\ cands[i].BaseAhead = 25 /\ cands[i].BaseBehind = 0
    /\ Len(cands[i].PRs) = 1
    /\ cands[i].PRs[1].Number = 42 /\ cands[i].PRs[1].State = "OPEN"
    /\ cands[i].divergenceThreshold = 20 /\ cands[i].staleCutoffDays = 14
    /\ Age(i) = TicksPerDay

\* the example of C25 on its own: exactly the three reasons, in that order
C25_Example ==
    \A i \in Ids :
      IsExample(i) =>
        /\ cands[i].Classification = "gray"
        /\ cands[i].GrayReasons =
             << <<"commits not merged into ", DefaultBranch>>,
                <<"PR #", "42", " ", "open">>,
                <<"diverged +", "25", "/-", "0", " from ", DefaultBranch>> >>

\* C25 as stated: the gray reasons of a candidate with unique commits stand
\* in the order unmerged, open PRs, no PR, divergence, staleness, multiple
\* PRs (at most 3 numbers), processes running; and the example gets exactly
\* its three reasons
C25_Original ==
    /\ \A i \in Ids :
         (NotBlocked(i) /\ cands[i].UniqueAhead > 0) =>
           /\ InDocumentedOrder(cands[i].GrayReasons)
           /\ \A k \in 1..Len(cands[i].GrayReasons) :
                ReasonRank(cands[i].GrayReasons[k]) = 6
                  => NumbersNamed(cands[i].GrayReasons[k]) <= 3
    /\ C25_Example

\* C26: a candidate with a process attached is never classified safe
C26_NeverSafeWithProcesses ==
    \A i \in Ids :
      cands[i].Processes # <<>> => cands[i].Classification # "safe"

\* a candidate that every other signal calls safe is gray for its processes
C26_Witness ==
    \E i \in Ids :
      /\ cands[i].Processes # <<>>
      /\ cands[i].UniqueAhead = 0 /\ ~cands[i].Dirty /\ ~cands[i].HasStash
      /\ cands[i].PRs = <<>> /\ cands[i].BlockReasons = <<>>
      /\ cands[i].Classification = "gray"
      /\ Len(cands[i].GrayReasons) = 1
      /\ cands[i].GrayReasons[1][1] = "processes running: "

-----------------------------------------------------------------------------
(* deriveClassification on a candidate in any stage *)

tidyStages ==
    {"scanning", "ready", "prompt", "cleaning", "cleaned", "skipped",
     "blocked", "error"}

\* the candidates deriveClassification may be given: classified before or
\* not, in any stage, with or without block reasons, notices, unique
\* commits and pull requests
DeriveInputs ==
    { [Candidate(block, extra, ahead) EXCEPT
          !.PRs = prs, !.Stage = stage, !.Classification = class] :
        block \in {<<>>, <<blockReasonCurrentWorktree>>},
        extra \in {<<>>, << <<"processes running: ", "1">> >>},
        ahead \in 0..1,
        prs \in ScanPRLists,
        stage \in tidyStages,
        class \in {"", "gray"} }

DeriveInit ==
    /\ PipelineIdle
    /\ LayoutIdle
    /\ xcmd = "tidy"
    /\ xpc = "classify"
    /\ opts = [policy |-> "auto", dryRun |-> FALSE, kill |-> FALSE,
               force |-> FALSE]
    /\ supported = TRUE
    /\ args = <<>>
    /\ targets = <<>>
    /\ \E c \in DeriveInputs :
         cands = [i \in Ids |-> IF i = 1 THEN c ELSE NewCandidate]
    /\ live = {}
    /\ cwd = [p \in Pids |-> 1]
    /\ signals = <<>>
    /\ outcome = [i \in Ids |-> "none"]
    /\ cleanups = <<>>
    /\ removed = {}
    /\ prompts = <<>>
    /\ loop = [idx |-> 0, manualQuit |-> FALSE, remoteTouched |-> FALSE,
               changed |-> FALSE, forced |-> {}]
    /\ pruned = FALSE
    /\ visited = <<>>
    /\ xret = [kind |-> "running", errs |-> <<>>]
    /\ gitData = <<>>
    /\ tidyConfig = DefaultTidyConfig
    /\ now \in 0..MaxAgeTicks
    /\ wd = 0

\* one call of deriveClassification
Derive ==
    /\ \E i \in Ids :
         cands' = [cands EXCEPT ![i] = deriveClassification(cands[i], now)]
    /\ UNCHANGED <<attemptVars, cellVars, rendererVars, layoutVars, scanVars, pipelineVars, xcmd, xpc, opts, supported, args,
                   targets, live, cwd, signals, outcome, cleanups, removed,
                   prompts, loop, pruned, visited, xret>>

DeriveNext == Derive

DeriveSpec == DeriveInit /\ [][DeriveNext]_vars

C27_BlockedKeepsStage ==
    [][\A i \in Ids :
         (cands[i].Stage \in {"cleaning", "cleaned"}
          /\ cands[i].BlockReasons # <<>>)
           => cands'[i].Stage = cands[i].Stage]_vars

-----------------------------------------------------------------------------
(* Claims on what a classification stores *)

\* the classification of a candidate agrees with its stored reasons
ReasonsAgree(c) ==
    /\ c.Classification = "gray" <=> c.GrayReasons # <<>>
    /\ c.Classification = "safe"
         <=> (c.GrayReasons = <<>> /\ c.BlockReasons = <<>>)

\* a step classified candidate i: its classification or its stored gray
\* reasons changed
ClassifiedAnew(i) ==
    \/ cands'[i].Classification # cands[i].Classification
    \/ cands'[i].GrayReasons # cands[i].GrayReasons

\* C28: after every classification a candidate is gray exactly when its
\* stored gray reasons are not empty, and safe exactly when they are empty
\* and it has no block reasons
C28_GrayIffReasons ==
    [][\A i \in Ids : ClassifiedAnew(i) => ReasonsAgree(cands'[i])]_vars

\* a gray candidate whose kill failed was classified again and is blocked,
\* without gray reasons, beside a gray and a safe candidate
C28_Witness ==
    \E i, j, k \in Ids :
      /\ cands[i].Classification = "blocked"
      /\ HasReason(cands[i].BlockReasons, "process cleanup failed: ")
      /\ cands[i].GrayReasons = <<>>
      /\ cands[j].Classification = "gray" /\ cands[j].GrayReasons # <<>>
      /\ cands[k].Classification = "safe" /\ cands[k].GrayReasons = <<>>

-----------------------------------------------------------------------------
(* The column layout of the status table *)

columnGapWidth == 3
columnMinWidths == <<24, 16, 24>>

\* shrinkPriority, counting the columns from 1
shrinkPriority == <<3, 1, 2>>

defaultProcessSummaryLimit == 80

Columns == DOMAIN columnMinWidths
LastColumn == Len(columnMinWidths)

RECURSIVE SumWidths(_)
SumWidths(widths) ==
    IF widths = <<>> THEN 0 ELSE Head(widths) + SumWidths(Tail(widths))

\* columnLayout.totalWidth
totalWidth(widths) ==
    SumWidths(widths)
    + (IF Len(widths) > 1 THEN (Len(widths) - 1) * columnGapWidth ELSE 0)

\* shrinkWidths: one round over shrinkPriority from position k on
RECURSIVE shrinkRound(_, _, _, _, _)
shrinkRound(widths, mins, excess, k, shrunk) ==
    IF k > Len(shrinkPriority)
    THEN [widths |-> widths, excess |-> excess, shrunk |-> shrunk]
    ELSE LET idx == shrinkPriority[k] IN
         IF widths[idx] > mins[idx]
         THEN LET less == [widths EXCEPT ![idx] = @ - 1] IN
              IF excess - 1 = 0
              THEN [widths |-> less, excess |-> 0, shrunk |-> TRUE]
              ELSE shrinkRound(less, mins, excess - 1, k + 1, TRUE)
         ELSE shrinkRound(widths, mins, excess, k + 1, shrunk)

\* shrinkWidths: for excess > 0, until a round shrinks nothing
RECURSIVE shrinkRounds(_, _, _)
shrinkRounds(widths, mins, excess) ==
    IF excess <= 0 THEN widths
    ELSE LET r == shrinkRound(widths, mins, excess, 1, FALSE) IN
         IF ~r.shrunk THEN r.widths
         ELSE shrinkRounds(r.widths, mins, r.excess)

\* a single round over shrinkPriority
shrinkWidthsOneRound(widths, mins, maxWidth) ==
    LET excess == totalWidth(widths) - maxWidth IN
    IF excess <= 0 THEN widths
    ELSE shrinkRound(widths, mins, excess, 1, FALSE).widths

shrinkWidths(widths, mins, maxWidth) ==
    LET excess == totalWidth(widths) - maxWidth IN
    IF excess <= 0 THEN widths ELSE shrinkRounds(widths, mins, excess)

\* the surplus goes to the first column
growFirstColumn(widths, maxWidth) ==
    LET total == totalWidth(widths) IN
    IF total < maxWidth
    THEN [widths EXCEPT ![1] = @ + (maxWidth - total)]
    ELSE widths

\* buildColumnLayout: widths[len(widths)-1] += maxWidth - total
growLastColumn(widths, maxWidth) ==
    LET total == totalWidth(widths) IN
    IF total < maxWidth
    THEN [widths EXCEPT ![LastColumn] = @ + (maxWidth - total)]
    ELSE widths

\* the widest field of column i, 0 without statuses
Measured(fields, i) ==
    IF fields = <<>> THEN 0
    ELSE CHOOSE w \in {fields[r][i] : r \in DOMAIN fields} :
           \A r \in DOMAIN fields : fields[r][i] <= w

\* buildColumnLayout: the minimums in force, the first never under the
\* widest name field
layoutMins(fields) ==
    [i \in Columns |->
       IF i = 1 /\ Measured(fields, 1) > columnMinWidths[1]
       THEN Measured(fields, 1) ELSE columnMinWidths[i]]

\* buildColumnLayout: the widths before shrinking and growing
naturalWidths(fields) ==
    [i \in Columns |->
       IF Measured(fields, i) < layoutMins(fields)[i]
       THEN layoutMins(fields)[i] ELSE Measured(fields, i)]

\* buildColumnLayout on the field widths of the statuses
buildColumnLayout(fields, maxWidth) ==
    LET mins == layoutMins(fields)
        widths == naturalWidths(fields)
    IN IF maxWidth > 0
       THEN LET fitted == growLastColumn(shrinkWidths(widths, mins, maxWidth),
                                         maxWidth)
            IN [widths |-> fitted, prDisplayWidth |-> fitted[LastColumn]]
       ELSE LET measured == Measured(fields, LastColumn)
                base == IF measured = 0 THEN widths[LastColumn] ELSE measured
                prBaseWidth == IF base < defaultProcessSummaryLimit
                               THEN defaultProcessSummaryLimit ELSE base
            IN [widths |-> [widths EXCEPT ![LastColumn] =
                               IF @ < prBaseWidth THEN prBaseWidth ELSE @],
                prDisplayWidth |-> prBaseWidth]

MaxRows == 2
MaxTermWidth == 100

\* display widths of a field: under the minimum of the first and the last
\* column only, and over every minimum
FieldWidthChoices == {20, 28}

StatusFieldWidths ==
    UNION { [1..n -> [Columns -> FieldWidthChoices]] : n \in 0..MaxRows }

LayoutInit ==
    /\ PipelineIdle
    /\ ExecIdle
    /\ ScanIdle
    /\ fieldWidths \in StatusFieldWidths
    /\ termWidth \in 0..MaxTermWidth
    /\ layout = <<>>
    /\ CellIdle
    /\ RendererIdle
    /\ AttemptIdle

\* runStatus / the tidy table: buildColumnLayout(statuses, now, maxWidth)
BuildLayout ==
    /\ layout = <<>>
    /\ layout' = buildColumnLayout(fieldWidths, termWidth)
    /\ UNCHANGED <<attemptVars, fieldWidths, termWidth, cellVars, rendererVars, scanVars,
                   pipelineVars, execVars>>

LayoutNext == BuildLayout

LayoutSpec == LayoutInit /\ [][LayoutNext]_vars

-----------------------------------------------------------------------------
(* Claims on the column layout *)

LaidOut == layout # <<>>

NaturalTotal == totalWidth(naturalWidths(fieldWidths))

\* the least total any layout of these statuses can have
MinimumTotal == totalWidth(layoutMins(fieldWidths))

NoColumnUnderMinimum ==
    \A i \in Columns : layout.widths[i] >= columnMinWidths[i]

\* C29 as stated: for a positive width under the natural total the layout
\* is no wider than the width and no column is under its minimum
C29_Original ==
    (LaidOut /\ termWidth > 0 /\ termWidth < NaturalTotal) =>
      /\ totalWidth(layout.widths) <= termWidth
      /\ NoColumnUnderMinimum

\* C29 amended: for a positive width under the natural total no column is
\* under its minimum; the layout is exactly as wide as the width when the
\* width is at least the minimums plus gaps, the first column's minimum
\* being the width of its widest field if that is larger, and else every
\* column is at its minimum and the layout is wider than the width
C29_FitsOrAtMinimums ==
    (LaidOut /\ termWidth > 0 /\ termWidth < NaturalTotal) =>
      /\ NoColumnUnderMinimum
      /\ IF termWidth >= MinimumTotal
         THEN totalWidth(layout.widths) = termWidth
         ELSE /\ layout.widths = layoutMins(fieldWidths)
              /\ totalWidth(layout.widths) > termWidth

\* a layout shrunk to a width between the minimums and the natural total
C29_Witness ==
    /\ LaidOut
    /\ termWidth >= MinimumTotal /\ termWidth + 2 < NaturalTotal
    /\ totalWidth(layout.widths) = termWidth
    /\ layout.widths[2] < naturalWidths(fieldWidths)[2]
    /\ layout.widths[LastColumn] < naturalWidths(fieldWidths)[LastColumn]

\* C30: for a width over the natural total the first two columns keep their
\* natural widths, the last grows by the surplus, and the layout is exactly
\* as wide as the width
C30_LastColumnAbsorbsSurplus ==
    (LaidOut /\ termWidth > NaturalTotal) =>
      /\ \A i \in Columns \ {LastColumn} :
           layout.widths[i] = naturalWidths(fieldWidths)[i]
      /\ layout.widths[LastColumn] =
           naturalWidths(fieldWidths)[LastColumn]
           + (termWidth - NaturalTotal)
      /\ totalWidth(layout.widths) = termWidth

\* a layout for a width over the natural total of statuses with a long name
C30_Witness ==
    /\ LaidOut
    /\ fieldWidths # <<>>
    /\ termWidth > NaturalTotal
    /\ naturalWidths(fieldWidths)[1] > columnMinWidths[1]
    /\ layout.widths[LastColumn] > naturalWidths(fieldWidths)[LastColumn]

-----------------------------------------------------------------------------
(* padOrTrim: a cell of the status table *)

(* A text is its UTF-8 bytes. A glyph is a lead byte, named after the      *)
(* glyph, and its continuation bytes, each written "+":                    *)
(*   "a", ")", " "  one byte, one column                                   *)
(*   "W"            a wide glyph, three bytes, two columns                 *)
(*   "z"            a zero-width glyph, three bytes, no column             *)
(*   "U+2026"       the ellipsis, three bytes; its width is ambiguous:     *)
(*                  one column, two under the East Asian condition         *)
ContinuationBytes(lead) == IF lead \in {"W", "z", "U+2026"} THEN 2 ELSE 0

RECURSIVE Encode(_)
Encode(glyphs) ==
    IF glyphs = <<>> THEN <<>>
    ELSE <<Head(glyphs)>>
         \o [k \in 1..ContinuationBytes(Head(glyphs)) |-> "+"]
         \o Encode(Tail(glyphs))

\* the text holds whole glyphs only
RECURSIVE IsWhole(_)
IsWhole(text) ==
    IF text = <<>> THEN TRUE
    ELSE LET n == ContinuationBytes(Head(text)) IN
         /\ Head(text) # "+"
         /\ Len(text) >= 1 + n
         /\ \A k \in 2..(1 + n) : text[k] = "+"
         /\ IsWhole(SubSeq(text, 2 + n, Len(text)))

\* runewidth.RuneWidth under DefaultCondition
RuneWidth(r) ==
    IF r = "W" THEN 2
    ELSE IF r = "z" THEN 0
    ELSE IF r = "U+2026" THEN (IF eastAsian THEN 2 ELSE 1)
    ELSE 1

\* runewidth.StringWidth: the widths of the glyphs, summed
RECURSIVE StringWidth(_)
StringWidth(text) ==
    IF text = <<>> THEN 0
    ELSE (IF Head(text) = "+" THEN 0 ELSE RuneWidth(Head(text)))
         + StringWidth(Tail(text))

\* runewidth.Truncate, its loop: the byte position before the first glyph
\* from byte i on that does not fit into w columns any more
RECURSIVE TruncatePos(_, _, _, _)
TruncatePos(text, i, width, w) ==
    IF i > Len(text) THEN Len(text)
    ELSE LET chWidth == RuneWidth(text[i]) IN
         IF width + chWidth > w THEN i - 1
         ELSE TruncatePos(text, i + 1 + ContinuationBytes(text[i]),
                          width + chWidth, w)

\* runewidth.Truncate(s, w, tail)
Truncate(text, w, tail) ==
    IF StringWidth(text) <= w THEN text
    ELSE SubSeq(text, 1, TruncatePos(text, 1, 0, w - StringWidth(tail)))
         \o tail

\* strings.Repeat(" ", n)
Spaces(n) == [k \in 1..n |-> " "]

HasSuffix(text, suffix) ==
    /\ Len(text) >= Len(suffix)
    /\ SubSeq(text, Len(text) - Len(suffix) + 1, Len(text)) = suffix

\* padOrTrim: indicator
Indicator(text, width) ==
    IF HasSuffix(text, <<")">>) /\ width > 1
    THEN Encode(<<"U+2026", ")">>) ELSE Encode(<<"U+2026">>)

padOrTrim(text, width) ==
    IF width <= 0 THEN <<>>
    ELSE LET textWidth == StringWidth(text) IN
         IF textWidth < width THEN text \o Spaces(width - textWidth)
         ELSE IF textWidth = width THEN text
         ELSE LET indicator == Indicator(text, width)
                  indicatorWidth == StringWidth(indicator)
              IN IF indicatorWidth >= width
                 THEN Truncate(indicator, width, <<>>)
                 ELSE LET keepWidth == width - indicatorWidth
                          trimmed == Truncate(text, keepWidth, <<>>)
                          result == trimmed \o indicator
                          resultWidth == StringWidth(result)
                      IN IF resultWidth < width
                         THEN result \o Spaces(width - resultWidth)
                         ELSE result

MaxGlyphs == 4
MaxCellWidth == 5

CellGlyphs == {"a", ")", "W", "z", "U+2026"}

CellTexts ==
    UNION { { Encode(g) : g \in [1..n -> CellGlyphs] } : n \in 0..MaxGlyphs }

CellInit ==
    /\ PipelineIdle
    /\ ExecIdle
    /\ ScanIdle
    /\ fieldWidths = <<>>
    /\ termWidth = 0
    /\ layout = <<>>
    /\ RendererIdle
    /\ AttemptIdle
    /\ eastAsian \in BOOLEAN
    /\ cellText \in CellTexts
    /\ cellWidth \in 0..MaxCellWidth
    /\ cellOut = [done |-> FALSE, text |-> <<>>]

\* formatStatusLine: parts[i] = padOrTrim(field, layout.widths[i])
PadOrTrim ==
    /\ ~cellOut.done
    /\ cellOut' = [done |-> TRUE, text |-> padOrTrim(cellText, cellWidth)]
    /\ UNCHANGED <<attemptVars, eastAsian, cellText, cellWidth, rendererVars, layoutVars,
                   scanVars, pipelineVars, execVars>>

CellNext == PadOrTrim

CellSpec == CellInit /\ [][CellNext]_vars

-----------------------------------------------------------------------------
(* Claims on padOrTrim *)

\* the returned cell is a cut of the text on a glyph boundary with this
\* ending after it
CutThenEnds(ending) ==
    \E n \in 0..Len(cellText) :
      /\ IsWhole(SubSeq(cellText, 1, n))
      /\ IsWhole(SubSeq(cellText, n + 1, Len(cellText)))
      /\ cellOut.text = SubSeq(cellText, 1, n) \o ending

C31_NarrowEllipsis ==
    (cellOut.done /\ cellWidth > 0 /\ ~eastAsian) =>
      /\ StringWidth(cellOut.text) = cellWidth
      /\ IsWhole(cellOut.text)
      /\ StringWidth(cellText) > cellWidth =>
           \/ CutThenEnds(Indicator(cellText, cellWidth))
           \/ CutThenEnds(Indicator(cellText, cellWidth) \o <<" ">>)

\* no glyph is split, whatever the width of the ellipsis
C31_NoGlyphSplit == cellOut.done => IsWhole(cellOut.text)

-----------------------------------------------------------------------------
(* statusRenderer: the repainted table *)

MaxCalls == 4
MaxExtra == 2

\* r.lines += n without the guard
linesWithExtraUnguarded(lines, n) == lines + n

\* AddExtraLines: if n <= 0 { return }; r.lines += n
linesWithExtra(lines, n) == IF n <= 0 THEN lines ELSE lines + n

\* what Render writes for count statuses while r.lines is lines: the cursor
\* goes up and the screen is cleared downward only if lines > 0
painted(lines, count) ==
    [op |-> "Render", n |-> 0,
     up |-> IF lines > 0 THEN lines ELSE 0,
     cleared |-> lines > 0,
     written |-> count]

RendererInit ==
    /\ PipelineIdle
    /\ ExecIdle
    /\ ScanIdle
    /\ fieldWidths = <<>>
    /\ termWidth = 0
    /\ layout = <<>>
    /\ CellIdle
    /\ RendererIdle
    /\ AttemptIdle

\* (*statusRenderer).Render on a table of count statuses
Render ==
    /\ Len(rlog) < MaxCalls
    /\ \E count \in 0..NumWorktrees :
         /\ rlog' = Append(rlog, painted(rlines, count))
         /\ rlines' = count
    /\ UNCHANGED <<attemptVars, cellVars, layoutVars, scanVars, pipelineVars,
                   execVars>>

\* (*statusRenderer).AddExtraLines(n)
AddExtraLines ==
    /\ Len(rlog) < MaxCalls
    /\ \E n \in (0 - 1)..MaxExtra :
         /\ rlog' = Append(rlog, [op |-> "AddExtraLines", n |-> n, up |-> 0,
                                  cleared |-> FALSE, written |-> 0])
         /\ rlines' = linesWithExtra(rlines, n)
    /\ UNCHANGED <<attemptVars, cellVars, layoutVars, scanVars, pipelineVars,
                   execVars>>

RendererNext == Render \/ AddExtraLines

RendererSpec == RendererInit /\ [][RendererNext]_vars

-----------------------------------------------------------------------------
(* Claims on the statusRenderer *)

\* the last Render among the first k - 1 calls, 0 when there is none
RenderBefore(k) ==
    IF \E j \in 1..(k - 1) : rlog[j].op = "Render"
    THEN CHOOSE j \in 1..(k - 1) :
           /\ rlog[j].op = "Render"
           /\ \A m \in (j + 1)..(k - 1) : rlog[m].op # "Render"
    ELSE 0

RECURSIVE PositiveExtras(_, _)
PositiveExtras(from, to) ==
    IF from > to THEN 0
    ELSE (IF rlog[from].op = "AddExtraLines" /\ rlog[from].n > 0
          THEN rlog[from].n ELSE 0)
         + PositiveExtras(from + 1, to)

\* the rows on the screen below the start of the table before call k: those
\* of the Render before, and the positive extra lines since
RowsBelow(k) ==
    (IF RenderBefore(k) = 0 THEN 0 ELSE rlog[RenderBefore(k)].written)
    + PositiveExtras(RenderBefore(k) + 1, k - 1)

\* C32 as stated: the first Render moves the cursor up by nothing, every
\* later Render moves it up by the rows of the Render before plus the
\* positive extra lines since and clears downward; the row count is kept
\* for the next paint, and AddExtraLines with n <= 0 changes nothing
C32_Original ==
    /\ \A k \in 1..Len(rlog) :
         rlog[k].op = "Render" =>
           IF RenderBefore(k) = 0
           THEN rlog[k].up = 0 /\ ~rlog[k].cleared
           ELSE rlog[k].up = RowsBelow(k) /\ rlog[k].cleared
    /\ rlines = RowsBelow(Len(rlog) + 1)

\* C32 amended: every Render, the first too, moves the cursor up by the rows
\* of the Render before, if any, plus the positive extra lines since, and
\* clears downward exactly when that number is over 0; the row count is kept
\* for the next paint, and AddExtraLines with n <= 0 changes nothing
C32_UpByRowsBelow ==
    /\ \A k \in 1..Len(rlog) :
         rlog[k].op = "Render" =>
           /\ rlog[k].up = RowsBelow(k)
           /\ rlog[k].cleared <=> RowsBelow(k) > 0
    /\ rlines = RowsBelow(Len(rlog) + 1)

\* a table is painted, a prompt of two lines and two calls that add nothing
\* follow, and the next paint goes up by the rows and the two lines
C32_Witness ==
    /\ Len(rlog) = 4
    /\ rlog[1].op = "Render" /\ rlog[1].written > 0
    /\ rlog[2].op = "AddExtraLines" /\ rlog[2].n = 2
    /\ rlog[3].op = "AddExtraLines" /\ rlog[3].n < 0
    /\ rlog[4].op = "Render"
    /\ rlog[4].up = rlog[1].written + 2 /\ rlog[4].cleared
    /\ rlines = rlog[4].written

-----------------------------------------------------------------------------
(* wt status with rows whose git facts failed *)

WorktreeNames == <<"w1", "w2", "w3", "w4", "w5", "w6">>

\* runStatus: PRStatus: fmt.Sprintf("error: %s", msg)
ErrorLabel == <<"error: ", "exit status 128">>

\* runStatus up to the sort, the rows in broken being error rows: the
\* first, the last, or both
StatusInit ==
    /\ ExecIdle
    /\ ScanIdle
    /\ LayoutIdle
    /\ cmd = "status"
    /\ pc = "start"
    /\ rows = [i \in Ids |-> i]
    /\ defaultWt = 0
    /\ timestamp = [i \in Ids |-> 1]
    /\ \E broken \in {{1}, {NumWorktrees}, {1, NumWorktrees}} :
         /\ facts = [i \in Ids |->
                       IF i \in broken THEN ErrorRow(WorktreeNames[i])
                       ELSE FactSeq[((i - 1) % Len(FactSeq)) + 1]]
         /\ prStatus = [i \in Ids |->
                          IF i \in broken THEN ErrorLabel ELSE prLoadingLabel]
    /\ pullRequests = [i \in Ids |-> <<>>]
    /\ extraGray = [i \in Ids |-> <<>>]
    /\ ppc = [i \in Ids |-> "idle"]
    /\ results = <<>>
    /\ closed = FALSE
    /\ ctxDone = FALSE
    /\ pending = {}
    /\ next = 0
    /\ combined = <<>>
    /\ ret = [kind |-> "running", errs |-> <<>>]
    /\ applied = <<>>
    /\ interrupted = <<>>
    /\ queries = <<>>

StatusNext ==
    \/ SortStatuses
    \/ StartFetch
    \/ SelectRecv
    \/ SelectClosed
    \/ SelectCtxDone
    \/ Cancel
    \/ \E i \in Ids : Producer(i)
    \/ Closer

StatusSpec == StatusInit /\ [][StatusNext]_vars

\* C33 as stated: no lookup is issued for an error row, and its PRStatus
\* stays what the git-facts pass wrote
C33_Original ==
    \A i \in Ids :
      facts[i].HasError =>
        /\ \A k \in 1..Len(queries) : queries[k] # facts[i].Branch
        /\ prStatus[i] = ErrorLabel

-----------------------------------------------------------------------------
(* resolveWorktreeArgs: the arguments of wt rm and wt kill *)

(* A path is the sequence of its components; an argument is a path and    *)
(* whether it is absolute. The component "..x" is a directory whose name  *)
(* begins with two dots.                                                   *)
ProjectRoot == <<"p">>

\* project.Worktree: the worktrees lie side by side in the project root
Worktrees ==
    [i \in Ids |-> [Name |-> WorktreeNames[i],
                    Path |-> ProjectRoot \o <<WorktreeNames[i]>>]]

\* filepath.Clean on an absolute path: ".." drops the component before it
RECURSIVE CleanInto(_, _)
CleanInto(done, parts) ==
    IF parts = <<>> THEN done
    ELSE IF Head(parts) = ".."
         THEN CleanInto(IF done = <<>> THEN <<>>
                        ELSE SubSeq(done, 1, Len(done) - 1), Tail(parts))
         ELSE CleanInto(Append(done, Head(parts)), Tail(parts))

\* canonicalizePath of an absolute path, no symbolic links on the way
canonicalizePath(path) == CleanInto(<<>>, path)

\* filepath.Rel(parent, child) for clean absolute paths
RECURSIVE Rel(_, _)
Rel(parent, child) ==
    IF parent # <<>> /\ child # <<>> /\ Head(parent) = Head(child)
    THEN Rel(Tail(parent), Tail(child))
    ELSE [k \in 1..Len(parent) |-> ".."] \o child

\* strings.HasPrefix(rel, ".."): the text of the first component begins
\* with two dots
HasDotDotPrefix(rel) == rel # <<>> /\ Head(rel) \in {"..", "..x"}

\* the containment holds whenever parent is a prefix of child
isWithinByComponents(child, parent) ==
    /\ Len(parent) <= Len(child)
    /\ SubSeq(child, 1, Len(parent)) = parent

\* isWithin: rel == "." || !strings.HasPrefix(rel, "..")
isWithin(child, parent) ==
    LET rel == Rel(parent, child) IN rel = <<>> \/ ~HasDotDotPrefix(rel)

\* findWorktreeByName: the id of the first worktree of that name, 0 for nil
findWorktreeByName(worktrees, arg) ==
    IF \E i \in DOMAIN worktrees :
         ~arg.abs /\ arg.parts = <<worktrees[i].Name>>
    THEN CHOOSE i \in DOMAIN worktrees :
           /\ ~arg.abs /\ arg.parts = <<worktrees[i].Name>>
           /\ \A j \in 1..(i - 1) : worktrees[j].Name # worktrees[i].Name
    ELSE 0

\* findWorktreeByPath, its loop from worktree i on with the match so far
RECURSIVE MatchByPath(_, _, _, _)
MatchByPath(worktrees, path, i, match) ==
    IF i > Len(worktrees) THEN [match |-> match, err |-> FALSE]
    ELSE IF isWithin(path, canonicalizePath(worktrees[i].Path))
         THEN IF match # 0 /\ worktrees[match].Path # worktrees[i].Path
              THEN [match |-> 0, err |-> TRUE]
              ELSE MatchByPath(worktrees, path, i + 1, i)
         ELSE MatchByPath(worktrees, path, i + 1, match)

\* resolveWorktreeArgs: the name decides, the path only without a name
findFirst(worktrees, arg, byPath) ==
    IF findWorktreeByName(worktrees, arg) # 0
    THEN findWorktreeByName(worktrees, arg)
    ELSE byPath.match

\* findWorktreeByPath(worktrees, arg, base)
findWorktreeByPath(worktrees, arg, base) ==
    LET path == canonicalizePath(IF arg.abs THEN arg.parts
                                 ELSE base \o arg.parts)
    IN MatchByPath(worktrees, path, 1, 0)

\* resolveWorktreeArgs(worktrees, args, wd), its loop: the targets so far,
\* and nil and an error at the first argument that matches nothing
RECURSIVE resolveWorktreeArgsFrom(_, _, _, _)
resolveWorktreeArgsFrom(worktrees, argv, base, found) ==
    IF argv = <<>> THEN [targets |-> found, err |-> FALSE]
    ELSE LET arg == Head(argv)
             byPath == IF findWorktreeByName(worktrees, arg) # 0
                       THEN [match |-> 0, err |-> FALSE]
                       ELSE findWorktreeByPath(worktrees, arg, base)
             wt == findFirst(worktrees, arg, byPath)
         IN IF byPath.err \/ wt = 0 THEN [targets |-> <<>>, err |-> TRUE]
            ELSE resolveWorktreeArgsFrom(
                     worktrees, Tail(argv), base,
                     IF \E k \in 1..Len(found) : found[k] = wt
                     THEN found ELSE Append(found, wt))

MaxArgs == 2

\* what may be typed: names, paths below the working directory, a path
\* through "..", a path into a directory "..x", a name of nothing, and
\* absolute paths inside and outside the project
ArgForms ==
    { [abs |-> FALSE, parts |-> parts] :
        parts \in { <<WorktreeNames[1]>>, <<WorktreeNames[2]>>,
                    <<"..", WorktreeNames[2]>>,
                    <<WorktreeNames[1], "src">>,
                    <<WorktreeNames[1], "..x">>, <<"nope">> } }
    \cup { [abs |-> TRUE, parts |-> parts] :
             parts \in { ProjectRoot \o <<WorktreeNames[NumWorktrees], "src">>,
                         <<"etc">> } }

\* os.Getwd(): the project root, or the root of a worktree
WorkingDir == IF wd = 0 THEN ProjectRoot ELSE Worktrees[wd].Path

ResolveInit ==
    /\ PipelineIdle
    /\ gitData = <<>>
    /\ tidyConfig = DefaultTidyConfig
    /\ now = 0
    /\ wd \in 0..NumWorktrees
    /\ LayoutIdle
    /\ xcmd = "rm"
    /\ xpc = "resolve"
    /\ opts = [policy |-> "auto", dryRun |-> FALSE, kill |-> FALSE,
               force |-> FALSE]
    /\ supported = TRUE
    /\ args \in UNION { [1..n -> ArgForms] : n \in 1..MaxArgs }
    /\ targets = <<>>
    /\ cands = [i \in Ids |-> Candidate(<<>>, <<>>, 0)]
    /\ live = {}
    /\ cwd = <<>>
    /\ signals = <<>>
    /\ outcome = [i \in Ids |-> "none"]
    /\ cleanups = <<>>
    /\ removed = {}
    /\ prompts = <<>>
    /\ loop = [idx |-> 0, manualQuit |-> FALSE, remoteTouched |-> FALSE,
               changed |-> FALSE, forced |-> {}]
    /\ pruned = FALSE
    /\ visited = <<>>
    /\ xret = [kind |-> "running", errs |-> <<>>]

\* resolveRmTargets: targets, err := resolveWorktreeArgs(worktrees, args, wd)
ResolveArgs ==
    /\ xpc = "resolve"
    /\ LET r == resolveWorktreeArgsFrom(Worktrees, args, WorkingDir, <<>>)
       IN /\ targets' = r.targets
          /\ xret' = [kind |-> IF r.err THEN "error" ELSE "running",
                      errs |-> <<>>]
    /\ xpc' = "resolved"
    /\ UNCHANGED <<attemptVars, cellVars, rendererVars, layoutVars, pipelineVars, xcmd,
                   opts, supported, args, cands, live, cwd, signals, outcome,
                   cleanups, removed, prompts, loop, pruned, visited,
                   gitData, tidyConfig, now>>
    /\ wd' = wd

ResolveNext == ResolveArgs

ResolveSpec ==
    /\ ResolveInit
    /\ [][ResolveNext]_vars

-----------------------------------------------------------------------------
(* Claims on resolveWorktreeArgs *)

\* the worktree an argument stands for: the one of that name, else the one
\* whose directory holds the path; 0 when there is none
Meant(arg) ==
    LET path == canonicalizePath(IF arg.abs THEN arg.parts
                                 ELSE WorkingDir \o arg.parts)
    IN IF \E i \in Ids : ~arg.abs /\ arg.parts = <<Worktrees[i].Name>>
       THEN CHOOSE i \in Ids : arg.parts = <<Worktrees[i].Name>>
       ELSE IF \E i \in Ids : isWithinByComponents(path, Worktrees[i].Path)
            THEN CHOOSE i \in Ids :
                   isWithinByComponents(path, Worktrees[i].Path)
            ELSE 0

\* the worktrees meant by the first k arguments, each once, in the order
\* of their first argument
RECURSIVE MeantUpTo(_)
MeantUpTo(k) ==
    IF k = 0 THEN <<>>
    ELSE LET before == MeantUpTo(k - 1) IN
         IF \E j \in 1..Len(before) : before[j] = Meant(args[k])
         THEN before ELSE Append(before, Meant(args[k]))

ResolvedAsMeant ==
    IF \E k \in 1..Len(args) : Meant(args[k]) = 0
    THEN xret.kind = "error" /\ targets = <<>>
    ELSE xret.kind # "error" /\ targets = MeantUpTo(Len(args))

\* C34 as stated: every argument stands for the worktree of that name, or
\* else for the worktree that holds the path; the targets are these
\* worktrees, each once, in the order of their first argument; any argument
\* that stands for no worktree fails the call, with no targets
C34_Original == xpc = "resolved" => ResolvedAsMeant

\* the same for arguments that do not pass through a directory whose name
\* begins with two dots
C34_PlainNames ==
    (xpc = "resolved"
     /\ \A k \in 1..Len(args) :
          \A m \in 1..Len(args[k].parts) : args[k].parts[m] # "..x")
      => ResolvedAsMeant

-----------------------------------------------------------------------------
(* One call of terminateWorktreeProcesses, step by step *)

MaxTimeout == 2

\* time.Now().After(deadline)
AfterOrAt(t, d) == t >= d

After(t, d) == t > d

\* what the call leaves alone
attemptFrame ==
    <<cmd, pc, rows, defaultWt, facts, timestamp, prStatus, pullRequests,
      extraGray, ppc, results, closed, pending, next, combined, ret, applied,
      interrupted, queries, xcmd, xpc, opts, supported, args, targets, cands,
      cwd, outcome, cleanups, removed, prompts, loop, pruned, visited, xret,
      gitData, tidyConfig, wd, layoutVars, cellVars, rendererVars>>

\* the call returns
Returns(kind, list) ==
    /\ tpc' = "returned"
    /\ tret' = [kind |-> kind, list |-> list]

\* a worktree with running processes, about to be terminated
AttemptInit ==
    /\ LayoutIdle
    /\ gitData = <<>>
    /\ tidyConfig = DefaultTidyConfig
    /\ now = 0
    /\ wd = 0
    /\ cmd = "tidy"
    /\ pc = "done"
    /\ rows = [i \in Ids |-> i]
    /\ defaultWt = 0
    /\ facts = [i \in Ids |-> FactSeq[1]]
    /\ timestamp = [i \in Ids |-> 1]
    /\ prStatus = [i \in Ids |-> <<>>]
    /\ pullRequests = [i \in Ids |-> <<>>]
    /\ extraGray = [i \in Ids |-> <<>>]
    /\ ppc = [i \in Ids |-> "idle"]
    /\ results = <<>>
    /\ closed = FALSE
    /\ ctxDone = FALSE
    /\ pending = {}
    /\ next = 1
    /\ combined = <<>>
    /\ ret = [done |-> FALSE, err |-> NilErr]
    /\ applied = <<>>
    /\ interrupted = <<>>
    /\ queries = <<>>
    /\ xcmd = "kill"
    /\ xpc = "killing"
    /\ opts = [policy |-> "auto", dryRun |-> FALSE, kill |-> FALSE,
               force |-> FALSE]
    /\ supported \in BOOLEAN
    /\ args = <<1>>
    /\ targets = <<1>>
    /\ cwd = [p \in Pids |-> 1]
    /\ live \in SUBSET Pids \ {{}}
    /\ cands = [i \in Ids |-> Safe]
    /\ signals = <<>>
    /\ outcome = [i \in Ids |-> "none"]
    /\ cleanups = <<>>
    /\ removed = {}
    /\ prompts = <<>>
    /\ loop = [idx |-> 1, manualQuit |-> FALSE, remoteTouched |-> FALSE,
               changed |-> FALSE, forced |-> {}]
    /\ pruned = FALSE
    /\ visited = <<>>
    /\ xret = [kind |-> "running", errs |-> <<>>]

\* terminateWorktreeProcesses up to the call of waitForProcessExit, and
\* the first statement of waitForProcessExit
Signal ==
    /\ tpc = "idle"
    /\ \E delivered \in SUBSET live, timeout \in 1..MaxTimeout :
         LET procs == detectWorktreeProcesses(live, cwd, targets[1])
             calls == SignalCalls(targets[1], procs, delivered)
         IN /\ signals' = signals \o calls
            /\ IF JoinSignalErrors(calls) # <<>>
               THEN /\ Returns("signal", <<>>)
                    /\ UNCHANGED deadline
               ELSE /\ tpc' = "select"
                    /\ deadline' = now + timeout
                    /\ UNCHANGED tret
    /\ UNCHANGED <<attemptFrame, polled, live, now, ctxDone>>

\* waitForProcessExit: select { case <-ctx.Done(): ...; default: }
PollSelect ==
    /\ tpc = "select"
    /\ IF ctxDone THEN Returns("canceled", <<>>)
       ELSE tpc' = "enumerate" /\ UNCHANGED tret
    /\ UNCHANGED <<attemptFrame, deadline, polled, signals, live, now,
                   ctxDone>>

\* waitForProcessExit: one enumeration and what follows it in the loop
PollEnumerate ==
    /\ tpc = "enumerate"
    /\ \E failed \in BOOLEAN :
         LET list == detectWorktreeProcesses(live, cwd, targets[1])
             err == IF failed THEN "enumerate"
                    ELSE IF ~supported THEN "unsupported" ELSE "nil"
         IN /\ polled' = Append(polled,
                           [err |-> err, at |-> now,
                            list |-> IF err = "nil" THEN list ELSE <<>>])
            /\ IF err # "nil" THEN Returns(err, <<>>)
               ELSE IF list = <<>> THEN Returns("nil", <<>>)
               ELSE IF After(now, deadline) THEN Returns("still", list)
               ELSE tpc' = "sleep" /\ UNCHANGED tret
    /\ UNCHANGED <<attemptFrame, deadline, signals, live, now, ctxDone>>

\* time.Sleep(100 * time.Millisecond): the clock has advanced on return
Sleep ==
    /\ tpc = "sleep"
    /\ tpc' = "select"
    /\ now' = now + 1
    /\ UNCHANGED <<attemptFrame, deadline, polled, tret, signals, live,
                   ctxDone>>

\* a process of the worktree exits
ProcExit ==
    /\ tpc \in {"select", "enumerate", "sleep"}
    /\ \E p \in live : live' = live \ {p}
    /\ UNCHANGED <<attemptFrame, attemptVars, signals, now, ctxDone>>

\* the context of the command is cancelled
CtxCancel ==
    /\ tpc # "returned"
    /\ ~ctxDone
    /\ ctxDone' = TRUE
    /\ UNCHANGED <<attemptFrame, attemptVars, signals, live, now>>

AttemptNext ==
    \/ Signal
    \/ PollSelect
    \/ PollEnumerate
    \/ Sleep
    \/ ProcExit
    \/ CtxCancel

AttemptSpec == AttemptInit /\ [][AttemptNext]_vars

\* the goroutine that runs the call is scheduled, and a sleep ends
AttemptLive ==
    /\ AttemptSpec
    /\ WF_vars(Signal)
    /\ WF_vars(PollSelect)
    /\ WF_vars(PollEnumerate)
    /\ WF_vars(Sleep)

-----------------------------------------------------------------------------
(* Claims on terminateWorktreeProcesses and waitForProcessExit *)

Last(s) == s[Len(s)]

\* the attempt met no cancellation, no failing enumeration, and a platform
\* that can list processes
Undisturbed ==
    /\ ~ctxDone
    /\ supported
    /\ \A k \in 1..Len(polled) : polled[k].err = "nil"

\* the attempt polled after signaling and ended Cleared or StillRunning,
\* StillRunning with the survivors of the last enumeration
ClearedOrStillRunning ==
    /\ polled # <<>>
    /\ \/ tret.kind = "nil" /\ Last(polled).list = <<>>
       \/ /\ tret.kind = "still"
          /\ tret.list # <<>>
          /\ tret.list = Last(polled).list

\* C35 as stated: every attempt that has ended went through signaling and
\* polling, re-enumerated the processes of the worktree after signaling,
\* and ended Cleared (nil) or StillRunning (the survivors named), also when
\* the delivery of a signal failed
C35_Original ==
    (tpc = "returned" /\ Undisturbed) => ClearedOrStillRunning

\* the same for the attempts in which every signal was delivered
C35_AllDelivered ==
    (tpc = "returned" /\ Undisturbed /\ \A k \in 1..Len(signals) : signals[k].ok)
      => ClearedOrStillRunning

\* waitForProcessExit has returned
Waited == tpc = "returned" /\ tret.kind # "signal"

\* an empty list is returned at the first enumeration that finds nothing,
\* the survivors at the first enumeration after the deadline, an error at
\* the first enumeration that fails
ReturnsAtFirst ==
    /\ \A k \in 1..(Len(polled) - 1) :
         /\ polled[k].err = "nil"
         /\ polled[k].list # <<>>
         /\ ~(polled[k].at > deadline)
    /\ tret.kind = "nil" =>
         /\ polled # <<>>
         /\ Last(polled).err = "nil" /\ Last(polled).list = <<>>
    /\ tret.kind = "still" =>
         /\ polled # <<>>
         /\ Last(polled).err = "nil" /\ Last(polled).at > deadline
         /\ tret.list = Last(polled).list /\ tret.list # <<>>
    /\ tret.kind \in {"enumerate", "unsupported"} =>
         /\ polled # <<>>
         /\ Last(polled).err = tret.kind
    /\ tret.kind = "canceled" =>
         /\ ctxDone
         /\ polled # <<>> =>
              /\ Last(polled).err = "nil" /\ Last(polled).list # <<>>
              /\ ~(Last(polled).at > deadline)

\* a pass through the loop that finds the context cancelled returns its
\* error
CancelSeen ==
    (tpc = "select" /\ ctxDone /\ tpc' # tpc)
      => (tpc' = "returned" /\ tret'.kind = "canceled")

\* C36 as stated: waitForProcessExit returns when time advances; it has
\* enumerated at least once; it returns empty at the first enumeration that
\* finds no process, the survivors at the first enumeration after the
\* deadline, an error once the context is cancelled or an enumeration fails
C36_Original ==
    /\ [](Waited => (polled # <<>> /\ ReturnsAtFirst))
    /\ [][CancelSeen]_vars
    /\ <>(tpc = "returned")

\* C36, amended: the same, where it has enumerated at least once unless the
\* context was cancelled before the first enumeration
C36_EnumeratesUnlessCancelled ==
    /\ [](Waited => ((polled # <<>> \/ tret.kind = "canceled")
                     /\ ReturnsAtFirst))
    /\ [][CancelSeen]_vars
    /\ <>(tpc = "returned")

\* the survivors are returned after the deadline, after more than one
\* enumeration
C36_Witness ==
    /\ Waited
    /\ tret.kind = "still"
    /\ Len(polled) > 1
    /\ Last(polled).at > deadline

-----------------------------------------------------------------------------
(* Claims on the goroutines and the cursor of the PR pipelines *)

\* the results sent for status i that are in the channel or held back
Unapplied(i) ==
    Cardinality({k \in 1..Len(results) : results[k].status = i})
    + Cardinality({r \in pending : r.status = i})

\* the results sent for status i so far
Sent(i) ==
    Unapplied(i) + Cardinality({k \in 1..Len(applied) : applied[k] = i})

\* the channel is closed by a step that finds every producer finished
ClosedAfterProducers ==
    closed' # closed =>
        /\ ~closed /\ closed'
        /\ \A i \in Ids : ppc[i] \in {"done", "skipped"}

\* C37: the channel never holds more results than it has room for (one per
\* candidate), each producer sends at most one, also after the consumer has
\* returned; the channel is closed once, after every producer has finished,
\* and stays closed; and when every lookup returns the producers finish,
\* the channel is closed, and the consumer returns
C37_NoBlockedGoroutine ==
    /\ [](/\ Len(results) <= NumWorktrees
          /\ \A i \in Ids : Sent(i) <= 1
          /\ \A i \in Ids : ppc[i] \in {"idle", "skipped"} => Sent(i) = 0
          /\ closed => \A i \in Ids : ppc[i] \in {"done", "skipped"})
    /\ [][ClosedAfterProducers]_vars
    /\ <>[](pc = "done" /\ closed
            /\ \A i \in Ids : ppc[i] \in {"done", "skipped"})

\* the consumer returned on the interrupt before it received anything, and
\* every producer sent its result into the channel afterwards
C37_Witness ==
    /\ cmd = "status"
    /\ pc = "done"
    /\ ret.kind = "ctx"
    /\ applied = <<>>
    /\ pending = {}
    /\ Len(results) = NumWorktrees
    /\ closed

\* C38: in wt status no status has a result applied twice and the applied
\* statuses are a prefix of the priority order, cancelled or not; and when
\* the fetch has returned without a cancellation every status has had its
\* result applied, the cursor is at the end and nothing is held back
C38_AppliedOncePrefix ==
    cmd = "status" =>
        /\ \A a, b \in 1..Len(applied) : applied[a] = applied[b] => a = b
        /\ Len(applied) <= Len(PriorityOrder)
        /\ applied = SubSeq(PriorityOrder, 1, Len(applied))
        /\ (pc = "done" /\ ~ctxDone) =>
              /\ Range(applied) = Range(rows)
              /\ Len(applied) = Len(rows)
              /\ next = Len(Ordered(rows, defaultWt))
              /\ pending = {}
              /\ results = <<>>

\* the fetch returned without a cancellation and the priority order is not
\* the order of the rows
C38_Witness ==
    /\ cmd = "status"
    /\ pc = "done"
    /\ ~ctxDone
    /\ ret.kind = "joined"
    /\ PriorityOrder # rows
    /\ Len(applied) = NumWorktrees

-----------------------------------------------------------------------------
(* The loop of executeTidies, with the stage "cleaning" as a step *)

\* what promptForCandidate returns: an answer, or the error of the read
PromptResults == Answers \cup {"read error"}

\* the candidates are classified and the loop is about to start; the
\* command was started in the project root or inside the first worktree
StageInit ==
    /\ PipelineIdle
    /\ LayoutIdle
    /\ gitData = <<>>
    /\ tidyConfig = DefaultTidyConfig
    /\ now = 0
    /\ wd \in {0, 1}
    /\ xcmd = "tidy"
    /\ xpc = "exec"
    /\ opts \in [policy : {"auto", "safe", "all", "prompt"}, dryRun : {FALSE},
                 kill : {FALSE}, force : {FALSE}]
    /\ supported = TRUE
    /\ args = <<>>
    /\ targets = [i \in 1..NumWorktrees |-> i]
    /\ cands \in { classifyCandidates(cs, 0) :
                     cs \in [Ids -> {Candidate(<<>>, <<>>, 0),
                                     Candidate(<<>>, <<>>, 1),
                                     Candidate(<<<<"worktree has uncommitted changes">>>>,
                                               <<>>, 0)}] }
    /\ cwd = [p \in Pids |-> 1]
    /\ live = {}
    /\ signals = <<>>
    /\ outcome = [i \in Ids |-> "none"]
    /\ cleanups = <<>>
    /\ removed = {}
    /\ prompts = <<>>
    /\ loop = [idx |-> 1, manualQuit |-> FALSE, remoteTouched |-> FALSE,
               changed |-> FALSE, forced |-> {}, relocated |-> FALSE]
    /\ pruned = FALSE
    /\ visited = <<>>
    /\ xret = [kind |-> "running", errs |-> <<>>]

\* one pass of the loop of executeTidies up to performCleanup: the
\* candidate is passed over, or the loop returns the error of the prompt
\* or of os.Chdir, or the candidate is shown as cleaning
ExecuteVisit ==
    /\ xcmd = "tidy"
    /\ xpc = "exec"
    /\ loop.idx <= Len(targets)
    /\ LET i == targets[loop.idx]
           decision == tidyDecision(cands[i].Classification, loop.manualQuit,
                                    opts.policy)
           skip(stage, quit) ==
               /\ SetStage(i, stage)
               /\ loop' = [loop EXCEPT !.idx = @ + 1,
                                       !.manualQuit = @ \/ quit]
               /\ UNCHANGED <<xpc, xret>>
           fail ==
               /\ Return("error", <<i>>)
               /\ UNCHANGED <<cands, loop>>
           proceed ==
               \E chdir \in {"ok", "failed"} :
                 IF ~loop.relocated /\ wd = i /\ chdir = "failed"
                 THEN fail
                 ELSE /\ SetStage(i, "cleaning")
                      /\ loop' = [loop EXCEPT !.relocated = @ \/ wd = i]
                      /\ xpc' = "cleaning"
                      /\ UNCHANGED xret
       IN /\ visited' = Append(visited, i)
          /\ IF decision = "blocked"
             THEN skip("blocked", FALSE) /\ UNCHANGED prompts
             ELSE IF decision \in {"quit", "declined"}
             THEN skip("skipped", FALSE) /\ UNCHANGED prompts
             ELSE IF decision = "prompt"
             THEN \E answer \in PromptResults :
                    /\ prompts' = Append(prompts,
                                         [wt |-> i, answer |-> answer])
                    /\ IF answer = "read error" THEN fail
                       ELSE IF answer = "y" THEN proceed
                       ELSE skip("skipped", answer = "q")
             ELSE proceed /\ UNCHANGED prompts
    /\ UNCHANGED <<attemptVars, cellVars, rendererVars, layoutVars, scanVars,
                   pipelineVars, xcmd, opts, supported, args, targets, live,
                   cwd, signals, outcome, cleanups, removed, pruned>>

\* performCleanup and what follows it in the pass
ExecuteCleanup ==
    /\ xcmd = "tidy"
    /\ xpc = "cleaning"
    /\ LET i == targets[loop.idx] IN
       \E r \in CleanupResults :
         /\ cleanups' = Append(cleanups, i)
         /\ removed' = IF r.removed THEN removed \cup {i} ELSE removed
         /\ IF r.failed
            THEN /\ SetStage(i, "error")
                 /\ Return("error", <<i>>)
                 /\ UNCHANGED loop
            ELSE /\ SetStage(i, "cleaned")
                 /\ loop' = [loop EXCEPT !.idx = @ + 1,
                                         !.remoteTouched = @ \/ r.touched]
                 /\ xpc' = "exec"
                 /\ UNCHANGED xret
    /\ UNCHANGED <<attemptVars, cellVars, rendererVars, layoutVars, scanVars,
                   pipelineVars, xcmd, opts, supported, args, targets, live,
                   cwd, signals, outcome, prompts, pruned, visited>>

StageNext ==
    \/ ExecuteVisit
    \/ ExecuteCleanup
    \/ ExecuteEnd

StageSpec == StageInit /\ [][StageNext]_vars

-----------------------------------------------------------------------------
(* Claims on the stages of the loop of executeTidies *)

EndStages == {"blocked", "skipped", "cleaned", "error"}

\* the position of candidate i in the loop
PositionOf(i) == CHOOSE k \in 1..Len(targets) : targets[k] = i

Visited(i) == \E k \in 1..Len(visited) : visited[k] = i

\* the loop returned the error of a prompt or of a cleanup
PromptOrCleanupFailed ==
    /\ xpc = "done"
    /\ xret.kind = "error"
    /\ xret.errs # <<>>

\* the loop returned the error of the prompt of candidate i, or of the
\* change of directory before its cleanup
OwnPromptFailed(i) ==
    /\ PromptOrCleanupFailed
    /\ xret.errs = <<i>>
    /\ ~\E k \in 1..Len(cleanups) : cleanups[k] = i

\* a stage changes to cleaned or to error from cleaning only, and to
\* cleaning only while the operator has not answered quit
StageSteps ==
    \A i \in Ids :
        cands'[i].Stage # cands[i].Stage =>
            /\ cands'[i].Stage \in {"cleaned", "error"}
                 => cands[i].Stage = "cleaning"
            /\ cands'[i].Stage = "cleaning" => ~loop.manualQuit /\ ~loop'.manualQuit

\* the operator answered quit at the prompt of the candidate at position k
QuitAt(k) ==
    \E m \in 1..Len(prompts) :
        prompts[m].wt = targets[k] /\ prompts[m].answer = "q"

\* after a quit the candidate asked and the later candidates that are not
\* blocked are skipped, and none of them is cleaned up
SkippedAfterQuit ==
    xpc = "done" =>
        \A k \in 1..Len(targets) :
            QuitAt(k) =>
                \A n \in k..Len(targets) :
                    cands[targets[n]].Classification # "blocked" =>
                        /\ cands[targets[n]].Stage = "skipped"
                        /\ ~\E m \in 1..Len(cleanups) : cleanups[m] = targets[n]

\* C39 as stated: when the loop is over every candidate is blocked, skipped,
\* cleaned or error, or was not visited because the prompt or the cleanup of
\* an earlier candidate returned an error; cleaned and error are reached from
\* cleaning only; after a quit the candidate asked and every later candidate
\* that is not blocked ends skipped and none of them enters cleaning
C39_Original ==
    /\ [](xpc = "done" =>
            \A i \in Ids :
                \/ cands[i].Stage \in EndStages
                \/ ~Visited(i) /\ PromptOrCleanupFailed)
    /\ [][StageSteps]_vars
    /\ []SkippedAfterQuit

\* C39, amended: the same, where a candidate is also left in the stage its
\* classification gave it (ready, or awaiting input, which is "prompt" here)
\* when the loop returned the error of its own prompt, or of the change of
\* directory before its cleanup
C39_EndStageOrLeft ==
    /\ [](xpc = "done" =>
            \A i \in Ids :
                \/ cands[i].Stage \in EndStages
                \/ /\ cands[i].Stage \in {"ready", "prompt"}
                   /\ \/ ~Visited(i) /\ PromptOrCleanupFailed
                      \/ Visited(i) /\ OwnPromptFailed(i))
    /\ [][StageSteps]_vars
    /\ []SkippedAfterQuit

\* the operator answered quit at the first prompt after a cleanup, and a
\* later candidate that is not blocked was passed over
C39_Witness ==
    /\ xpc = "done"
    /\ xret.kind = "nil"
    /\ cleanups # <<>>
    /\ \E k \in 2..(Len(targets) - 1) :
         /\ QuitAt(k)
         /\ cands[targets[k + 1]].Classification # "blocked"
         /\ cands[targets[k + 1]].Stage = "skipped"

-----------------------------------------------------------------------------
(* runTidy and runRm attach the processes, and runTidy attaches them again *)

MaxAttaches == 3

\* the candidates are collected, none has an extra reason yet
AttachInit ==
    /\ PipelineIdle
    /\ LayoutIdle
    /\ ScanIdle
    /\ xcmd = "tidy"
    /\ xpc = "attach"
    /\ opts = [policy |-> "auto", dryRun |-> FALSE, kill |-> TRUE,
               force |-> FALSE]
    /\ supported \in BOOLEAN
    /\ args = <<>>
    /\ targets = <<>>
    /\ cands \in [Ids -> {Candidate(<<>>, <<>>, 0), Candidate(<<>>, <<>>, 1)}]
    /\ cwd \in ProcLayouts
    /\ live \in {Pids, {1}}
    /\ signals = <<>>
    /\ outcome = [i \in Ids |-> "none"]
    /\ cleanups = <<>>
    /\ removed = {}
    /\ prompts = <<>>
    /\ loop = [idx |-> 0, manualQuit |-> FALSE, remoteTouched |-> FALSE,
               changed |-> FALSE, forced |-> {}]
    /\ pruned = FALSE
    /\ visited = <<>>
    /\ xret = [kind |-> "running", errs |-> <<>>]

\* what the call leaves alone
attachFrame ==
    <<pipelineVars, scanVars, layoutVars, cellVars, rendererVars, xcmd, xpc,
      opts, supported, args, targets, cwd, signals, outcome, cleanups, removed,
      prompts, pruned, visited, xret, tpc, deadline, tret>>

\* attachProcessesToCandidates(candidates); polled keeps what the call
\* enumerated for each worktree
AttachProcesses ==
    /\ xpc = "attach"
    /\ loop.idx < MaxAttaches
    /\ loop' = [loop EXCEPT !.idx = @ + 1]
    /\ cands' = attachProcessesToCandidates(cands, Ids, supported, live, cwd)
    /\ polled' = IF supported
                 THEN Append(polled,
                        [err |-> "nil", at |-> now,
                         list |-> [i \in Ids |->
                                     detectWorktreeProcesses(live, cwd, i)]])
                 ELSE polled
    /\ UNCHANGED <<attachFrame, live>>

\* fetchTidyPullRequests: the lookup of candidate i fails
FetchFailure(i) ==
    /\ xpc = "attach"
    /\ loop.idx > 0
    /\ ~\E k \in 1..Len(cands[i].extraGrayReasons) :
          ~IsProcessReason(cands[i].extraGrayReasons[k])
    /\ \E o \in queryPullRequests(FALSE, cands[i].Branch) :
         /\ ~o.err.nil
         /\ cands' = [cands EXCEPT ![i] = applyTidyResult(@, o)]
    /\ UNCHANGED <<attachFrame, polled, live, loop>>

\* tidyKillProcesses: the processes of worktree i are signalled and exit
ProcessesCleared(i) ==
    /\ xpc = "attach"
    /\ loop.idx > 0
    /\ \E p \in live : cwd[p] = i
    /\ live' = {p \in live : cwd[p] # i}
    /\ UNCHANGED <<attachFrame, polled, cands, loop>>

AttachNext ==
    \/ AttachProcesses
    \/ \E i \in Ids : FetchFailure(i)
    \/ \E i \in Ids : ProcessesCleared(i)

AttachSpec == AttachInit /\ [][AttachNext]_vars

-----------------------------------------------------------------------------
(* Claims on attachProcessesToCandidates *)

\* the 'processes running' entries among the extra reasons of candidate i
ProcessEntries(i) ==
    SelectSeq(cands[i].extraGrayReasons, IsProcessReason)

\* a call leaves the other extra reasons of every candidate as they were,
\* in their order
OthersKept ==
    \A i \in Ids :
        removeProcessGrayReason(cands'[i].extraGrayReasons)
          = removeProcessGrayReason(cands[i].extraGrayReasons)

\* C40: after any number of calls of attachProcessesToCandidates a candidate
\* has at most one 'processes running' entry among its extra reasons; it has
\* one exactly when the latest enumeration listed a process in its worktree,
\* and then the entry summarises that list; and a call keeps every other
\* extra reason, in its order
C40_AttachIdempotent ==
    /\ [](\A i \in Ids :
            /\ Len(ProcessEntries(i)) <= 1
            /\ polled = <<>> => ProcessEntries(i) = <<>>
            /\ polled # <<>> =>
                 /\ ProcessEntries(i) # <<>> <=> Last(polled).list[i] # <<>>
                 /\ ProcessEntries(i) # <<>> =>
                      ProcessEntries(i)[1] =
                        <<"processes running: ">>
                        \o summarizeProcesses(Last(polled).list[i])
                 /\ cands[i].Processes = Last(polled).list[i])
    /\ [][AttachProcesses => OthersKept]_vars

\* the processes were attached twice; one candidate keeps its failed lookup
\* before the entry of its processes, another lost its entry when its
\* processes were gone at the second call
C40_Witness ==
    /\ Len(polled) = 2
    /\ \E i \in Ids :
         /\ Len(cands[i].extraGrayReasons) = 2
         /\ ~IsProcessReason(cands[i].extraGrayReasons[1])
         /\ IsProcessReason(cands[i].extraGrayReasons[2])
         /\ polled[1].list[i] # <<>>
    /\ \E j \in Ids :
         /\ polled[1].list[j] # <<>>
         /\ polled[2].list[j] = <<>>
         /\ ProcessEntries(j) = <<>>

====
